---- MODULE Spec2Model ----
(***************************************************************************)
(* Quant Energy Risk Engine (src/app.py): the risk-metrics computer, the   *)
(* stress-test evaluator, the Monte-Carlo path simulator and the session   *)
(* that drives them.                                                       *)
(*                                                                         *)
(* Number representation.  The program computes in float64.  Here           *)
(*   - money and energy are integers in hundredths (FP = 100 per unit):    *)
(*     a loss of 12.34 EUR is 1234, a load of 1.5 MWh is 150;              *)
(*   - expectation, quantile and tail measures, which the code obtains by  *)
(*     sums and one division, are exact rationals <<num, den>>, den > 0,   *)
(*     in lowest terms;                                                    *)
(*   - measures that need sqrt/exp/log are fixed-point values at the       *)
(*     resolution FP (EFP for the entropic exponent).                      *)
(***************************************************************************)
EXTENDS Integers, Sequences, FiniteSets, TLC

(***************************************************************************)
(* Bounds of the model.                                                    *)
(***************************************************************************)
MaxLen == 4        \* longest loss sample handed to compute_risk_metrics
MaxRuns == 2       \* simulation runs per session
LongHours == 400   \* length of the long dataset of the stress harness
MaxRows == 4        \* rows of an imported table
YearHours == 2      \* hours of a calendar year of a generated dataset

(***************************************************************************)
(* Fixed-point resolutions standing for float64.                           *)
(***************************************************************************)
FP == 100
EFP == 1000
AlphaDen == 1000   \* confidence levels are alphaNum / AlphaDen

(***************************************************************************)
(* Arithmetic helpers.                                                     *)
(***************************************************************************)
Abs(x) == IF x < 0 THEN -x ELSE x
Min(a, b) == IF a <= b THEN a ELSE b
Max(a, b) == IF a >= b THEN a ELSE b

RECURSIVE GCD(_, _)
GCD(a, b) == IF b = 0 THEN a ELSE GCD(b, a % b)

\* the rational n/d (d > 0) in lowest terms
RNorm(n, d) ==
    LET g == GCD(Abs(n), d)
    IN  IF g = 0 THEN <<0, 1>> ELSE <<n \div g, d \div g>>
RInt(n) == <<n, 1>>
RZero == <<0, 1>>
LCM(a, b) == (a \div GCD(a, b)) * b
RAdd(a, b) ==
    LET l == LCM(a[2], b[2])
    IN  RNorm(a[1] * (l \div a[2]) + b[1] * (l \div b[2]), l)
RNeg(a) == <<-a[1], a[2]>>
RSub(a, b) == RAdd(a, RNeg(b))
RMul(a, b) ==
    LET g1 == GCD(Abs(a[1]), b[2])
        g2 == GCD(Abs(b[1]), a[2])
    IN  IF a[1] = 0 \/ b[1] = 0 THEN <<0, 1>>
        ELSE <<(a[1] \div g1) * (b[1] \div g2), (a[2] \div g2) * (b[2] \div g1)>>
\* a / b for b # 0
RDiv(a, b) ==
    IF b[1] > 0 THEN RMul(a, <<b[2], b[1]>>) ELSE RMul(a, <<-b[2], -b[1]>>)
RAbs(a) == <<Abs(a[1]), a[2]>>
RLe(a, b) ==
    LET l == LCM(a[2], b[2])
    IN  a[1] * (l \div a[2]) <= b[1] * (l \div b[2])
RLt(a, b) == RLe(a, b) /\ a # b
RMax(a, b) == IF RLe(b, a) THEN a ELSE b
RMin(a, b) == IF RLe(a, b) THEN a ELSE b

\* sum of s[lo..hi], by halving
RECURSIVE SumRange(_, _, _)
SumRange(s, lo, hi) ==
    IF lo > hi THEN 0
    ELSE IF lo = hi THEN s[lo]
    ELSE LET mid == (lo + hi) \div 2
         IN  SumRange(s, lo, mid) + SumRange(s, mid + 1, hi)
SeqSum(s) == SumRange(s, 1, Len(s))

\* floor of the square root, by bisection on [lo, hi]
RECURSIVE ISqrtB(_, _, _)
ISqrtB(x, lo, hi) ==
    IF lo >= hi THEN lo
    ELSE LET mid == (lo + hi + 1) \div 2
         IN  IF mid <= x \div mid THEN ISqrtB(x, mid, hi)
             ELSE ISqrtB(x, lo, mid - 1)
ISqrt(x) == IF x <= 0 THEN 0 ELSE ISqrtB(x, 0, Min(x, 46340))

\* division rounding toward zero (b > 0)
TDiv(a, b) == IF a >= 0 THEN a \div b ELSE -((-a) \div b)

\* exp(x / u) * u by the Taylor series, evaluated term by term
RECURSIVE ExpTerms(_, _, _, _)
ExpTerms(x, u, k, term) ==
    IF term = 0 \/ k > 12 THEN 0
    ELSE term + ExpTerms(x, u, k + 1, TDiv(term * x, k * u))
ExpFix(x, u) == ExpTerms(x, u, 1, u)

\* log(m / u) * u for 0 < m <= u, by the series log(1 - w) = -(w + w^2/2 + ...)
RECURSIVE LogTerms(_, _, _, _)
LogTerms(w, u, k, pow) ==
    IF pow = 0 \/ k > 12 THEN 0
    ELSE (pow \div k) + LogTerms(w, u, k + 1, (pow * w) \div u)
LogFix(m, u) == -LogTerms(u - m, u, 1, u - m)

(***************************************************************************)
(* RiskMetrics and compute_risk_metrics (src/app.py:3545-3770).            *)
(***************************************************************************)
\* the dataclass defaults: what RiskMetrics() is
RiskMetrics_kurt3 ==
    [EL |-> RZero, std |-> 0, VaR |-> RZero, CVaR |-> RZero, UL |-> RZero,
     skew |-> 0, kurtosis |-> 3 * FP, spectral |-> 0, entropic |-> 0,
     min_val |-> RZero, max_val |-> RZero,
     p01 |-> RZero, p05 |-> RZero, p10 |-> RZero, p25 |-> RZero,
     median |-> RZero, p75 |-> RZero, p90 |-> RZero, p95 |-> RZero,
     p99 |-> RZero, iqr |-> RZero, n |-> 0, sorted |-> <<>>]
RiskMetrics ==
    [EL |-> RZero, std |-> 0, VaR |-> RZero, CVaR |-> RZero, UL |-> RZero,
     skew |-> 0, kurtosis |-> 0, spectral |-> 0, entropic |-> 0,
     min_val |-> RZero, max_val |-> RZero,
     p01 |-> RZero, p05 |-> RZero, p10 |-> RZero, p25 |-> RZero,
     median |-> RZero, p75 |-> RZero, p90 |-> RZero, p95 |-> RZero,
     p99 |-> RZero, iqr |-> RZero, n |-> 0, sorted |-> <<>>]

\* np.sort: ascending; the element of rank k is the value v with fewer
\* than k elements below it and at least k elements not above it
np_sort(s) ==
    [k \in 1..Len(s) |->
        CHOOSE v \in {s[i] : i \in DOMAIN s} :
            /\ Cardinality({i \in DOMAIN s : s[i] < v}) < k
            /\ k <= Cardinality({i \in DOMAIN s : s[i] <= v})]

\* np.percentile(losses, q), linear interpolation between order statistics
np_percentile(s, q) ==
    LET n == Len(s)
        pos == q * (n - 1)            \* in hundredths of an index
        lo == pos \div 100
        frac == pos - 100 * lo
    IN  IF lo + 1 >= n THEN RInt(s[n])
        ELSE RNorm(100 * s[lo + 1] + frac * (s[lo + 2] - s[lo + 1]), 100)

\* index of the VaR in the sorted sample (0-based, as in the code)
VarIndex_ceil(alphaNum, n) ==
    Min((alphaNum * n + AlphaDen - 1) \div AlphaDen, n - 1)
VarIndex(alphaNum, n) == Min((alphaNum * n) \div AlphaDen, n - 1)

\* the unexpected loss of line 3724
UnexpectedLoss_swapped(cvar, el) == RMax(RZero, RSub(el, cvar))
UnexpectedLoss(cvar, el) == RMax(RZero, RSub(cvar, el))

\* sample standard deviation, ddof = 1, in loss units
StdFix(losses, n) ==
    LET elF == TDiv(SeqSum(losses), n)
        sq == [i \in 1..n |-> (losses[i] - elF) * (losses[i] - elF)]
    IN  IF n > 1 THEN ISqrt(SeqSum(sq) \div (n - 1)) ELSE 0

\* standardised values z = (losses - el) / std at resolution FP
ZFix(losses, n, std) ==
    [i \in 1..n |-> TDiv((losses[i] - TDiv(SeqSum(losses), n)) * FP, std)]

\* spectral measure with exponential spectrum, gamma = risk_aversion
SpectralFix(s, n, gamma) ==
    LET p_grid == [i \in 1..n |-> ((2 * (i - 1) + 1) * FP) \div (2 * n)]
        phi == [i \in 1..n |->
                  IF gamma > 0
                  THEN (gamma * ExpFix(TDiv(gamma * p_grid[i], FP), FP))
                           \div (ExpFix(gamma, FP) - FP)
                  ELSE FP]
        tot == SeqSum(phi)
        w == [i \in 1..n |-> (phi[i] * FP) \div tot]
    IN  TDiv(SeqSum([i \in 1..n |-> w[i] * s[i]]), FP)

\* entropic measure (1/gamma) log E[exp(gamma L)], gamma = 1 / gammaInv per
\* EUR; with losses in hundredths the exponent at resolution EFP is
\* (loss * EFP) / (FP * gammaInv)
EntropicFix(losses, s, n, gammaInv) ==
    LET mx == s[n]
        shifted == [i \in 1..n |-> TDiv((losses[i] - mx) * EFP, FP * gammaInv)]
        mgf == SeqSum([i \in 1..n |-> ExpFix(shifted[i], EFP)]) \div n
        log_mgf == LogFix(mgf, EFP) + TDiv(mx * EFP, FP * gammaInv)
    IN  TDiv(log_mgf * FP * gammaInv, EFP)

risk_aversion == 200        \* gamma = 2.0 at resolution FP
entropic_gamma_inv == 1000  \* gamma = 0.001 = 1 / 1000

\* the tail s[idx_var:] and its mean (lines 3720-3721)
TailMean_head(s, idx_var, var) ==
    LET head == SubSeq(s, 1, idx_var + 1)
    IN  IF Len(head) > 0 THEN RNorm(SeqSum(head), Len(head)) ELSE var
TailMean(s, idx_var, var) ==
    LET tail == SubSeq(s, idx_var + 1, Len(s))
    IN  IF Len(tail) > 0 THEN RNorm(SeqSum(tail), Len(tail)) ELSE var

\* lines 3702-3770: the measures of a non-empty sample
risk_metrics_of_sample(losses, alphaNum) ==
    LET n == Len(losses)
        s == np_sort(losses)
        el == RNorm(SeqSum(losses), n)
        std == StdFix(losses, n)
        idx_var == VarIndex(alphaNum, n)
        var == RInt(s[idx_var + 1])
        cvar == TailMean(s, idx_var, var)
        ul == UnexpectedLoss(cvar, el)
        z == ZFix(losses, n, std)
        moments == std > 0 /\ n > 3
        skw == IF moments
               THEN TDiv(SeqSum([i \in 1..n |-> TDiv(z[i] * z[i] * z[i], FP * FP)]), n)
               ELSE 0
        krt == IF moments
               THEN TDiv(SeqSum([i \in 1..n |->
                        TDiv(TDiv(z[i] * z[i], FP) * TDiv(z[i] * z[i], FP), FP)]), n)
                    - 3 * FP
               ELSE 0
        p25 == np_percentile(s, 25)
        p75 == np_percentile(s, 75)
    IN  [EL |-> el, std |-> std, VaR |-> var, CVaR |-> cvar, UL |-> ul,
         skew |-> skw, kurtosis |-> krt,
         spectral |-> SpectralFix(s, n, risk_aversion),
         entropic |-> EntropicFix(losses, s, n, entropic_gamma_inv),
         min_val |-> RInt(s[1]), max_val |-> RInt(s[n]),
         p01 |-> np_percentile(s, 1), p05 |-> np_percentile(s, 5),
         p10 |-> np_percentile(s, 10), p25 |-> p25,
         median |-> np_percentile(s, 50), p75 |-> p75,
         p90 |-> np_percentile(s, 90), p95 |-> np_percentile(s, 95),
         p99 |-> np_percentile(s, 99), iqr |-> RSub(p75, p25),
         n |-> n, sorted |-> s]

\* lines 3698-3700, then the body
compute_risk_metrics_single(losses, alphaNum) ==
    IF Len(losses) <= 1 THEN RiskMetrics
    ELSE risk_metrics_of_sample(losses, alphaNum)
compute_risk_metrics(losses, alphaNum) ==
    IF Len(losses) = 0 THEN RiskMetrics
    ELSE risk_metrics_of_sample(losses, alphaNum)

\* lines 3734-3744 with risk_aversion and the error state of numpy as
\* inputs: np.exp(gamma) overflows above 709.78
ExpOverflowAt == 70978
\* a rational of loss units at the resolution of the fixed-point measures
RFix(r) == TDiv(r[1], r[2])
FallbackTaken(err, losses, gamma) ==
    IF Len(losses) > 0 /\ gamma > ExpOverflowAt /\ err = "raise"
    THEN {"spectral"} ELSE {}
compute_risk_metrics_errstate(err, losses, alphaNum, gamma) ==
    IF Len(losses) = 0 THEN RiskMetrics
    ELSE LET m == risk_metrics_of_sample(losses, alphaNum)
         IN  [m EXCEPT !.spectral =
                 IF gamma > ExpOverflowAt
                 THEN (IF err = "raise" THEN RFix(m.CVaR) ELSE <<0, 0>>)
                 ELSE SpectralFix(m.sorted, m.n, gamma)]

(***************************************************************************)
(* Stress-test evaluator (src/app.py:4168-4333).                           *)
(* A dataset is a record [name, n_hours, load, hpfc, year_map, years,      *)
(* dates]; load is in hundredths of a MWh, hpfc in hundredths of a EUR.    *)
(***************************************************************************)
\* the scenario table in the order of the dict; price_shock in EUR,
\* vol_shock in hundredths, duration_hours in hours
STRESS_SCENARIOS ==
    << [name |-> "Dunkelflaute", price_shock |-> 350, vol_shock |-> 20,
        duration_hours |-> 336],
       [name |-> "Gaskrise (2022-Typ)", price_shock |-> 180, vol_shock |-> -5,
        duration_hours |-> 2160],
       [name |-> "Polar Vortex", price_shock |-> 200, vol_shock |-> 35,
        duration_hours |-> 168],
       [name |-> "Negativ-Preise (Solar)", price_shock |-> -130,
        vol_shock |-> -10, duration_hours |-> 50],
       [name |-> "Kernkraft-Ausfall FR", price_shock |-> 60, vol_shock |-> 2,
        duration_hours |-> 2880],
       [name |-> "Milder Winter", price_shock |-> -30, vol_shock |-> -15,
        duration_hours |-> 4320] >>

ScenarioNames == {STRESS_SCENARIOS[i].name : i \in DOMAIN STRESS_SCENARIOS}
Scenario(name) ==
    STRESS_SCENARIOS[CHOOSE i \in DOMAIN STRESS_SCENARIOS :
                        STRESS_SCENARIOS[i].name = name]

stress_penalty == 40
hedge_ratio_pct == 30     \* hedge_ratio = 0.3

\* line 4300: the fraction of the horizon the scenario covers
affected_fraction_uncapped(dur, T) == RNorm(dur, T)
affected_fraction(dur, T) == RMin(RInt(1), RNorm(dur, T))

\* data.load.sum() and data.load.mean() in MWh
LoadSum(d) == RNorm(SeqSum(d.load), FP)
LoadMean(d) == RNorm(SeqSum(d.load), FP * d.n_hours)

run_stress_test(d, scenario_name) ==
    LET sc == Scenario(scenario_name)
        T == d.n_hours
        Vt == LoadSum(d)
        avg_load == LoadMean(d)
        dur == sc.duration_hours
        dp == RInt(sc.price_shock)
        dv == RNorm(sc.vol_shock, 100)
        vp_loss == RMul(RMul(RMul(avg_load, dv), dp), RInt(dur))
        imb_loss == RMul(RMul(RAbs(RMul(avg_load, dv)), RInt(stress_penalty)),
                         RInt(dur))
        struct_impact ==
            RMul(RMul(RMul(dp, Vt), affected_fraction(dur, T)),
                 RNorm(100 - hedge_ratio_pct, 100))
        total == RAdd(RAdd(vp_loss, imb_loss), struct_impact)
        per_mwh == IF RLt(RZero, Vt) THEN RDiv(total, Vt) ELSE RZero
    IN  [name |-> scenario_name, vp_loss |-> vp_loss, imb_loss |-> imb_loss,
         struct_impact |-> struct_impact, total |-> total,
         per_mwh |-> per_mwh, duration |-> dur,
         price_shock |-> sc.price_shock, vol_shock |-> sc.vol_shock]

\* list.sort(key = |total|, reverse = True): stable, largest first
RECURSIVE InsertByAbsTotal(_, _)
InsertByAbsTotal(x, s) ==
    IF s = <<>> THEN <<x>>
    ELSE IF RLt(RAbs(s[1].total), RAbs(x.total)) THEN <<x>> \o s
    ELSE <<s[1]>> \o InsertByAbsTotal(x, Tail(s))
RECURSIVE SortByAbsTotal(_)
SortByAbsTotal(s) ==
    IF s = <<>> THEN <<>>
    ELSE InsertByAbsTotal(s[Len(s)], SortByAbsTotal(SubSeq(s, 1, Len(s) - 1)))

run_all_stress_tests_unsorted(d) ==
    [i \in DOMAIN STRESS_SCENARIOS |-> run_stress_test(d, STRESS_SCENARIOS[i].name)]
run_all_stress_tests(d) ==
    SortByAbsTotal([i \in DOMAIN STRESS_SCENARIOS |->
                       run_stress_test(d, STRESS_SCENARIOS[i].name)])

(***************************************************************************)
(* float64 division results that are not numbers: x / 0.                   *)
(* NaN is <<0, 0>>, +inf is <<1, 0>>, -inf is <<-1, 0>>.                   *)
(***************************************************************************)
NaN == <<0, 0>>
IsFinite(a) == a[2] # 0
IsNaN(a) == a = NaN
Sgn(x) == IF x > 0 THEN 1 ELSE IF x < 0 THEN -1 ELSE 0
FAdd(a, b) ==
    IF IsFinite(a) /\ IsFinite(b) THEN RAdd(a, b)
    ELSE IF IsNaN(a) \/ IsNaN(b) THEN NaN
    ELSE IF IsFinite(a) THEN b
    ELSE IF IsFinite(b) THEN a
    ELSE IF a = b THEN a ELSE NaN
FNeg(a) == <<-a[1], a[2]>>
FSub(a, b) == FAdd(a, FNeg(b))
FMul(a, b) ==
    IF IsFinite(a) /\ IsFinite(b) THEN RMul(a, b)
    ELSE IF IsNaN(a) \/ IsNaN(b) \/ a[1] = 0 \/ b[1] = 0 THEN NaN
    ELSE <<Sgn(a[1]) * Sgn(b[1]), 0>>
FDiv(a, b) ==
    IF IsNaN(a) \/ IsNaN(b) THEN NaN
    ELSE IF ~IsFinite(b) THEN (IF IsFinite(a) THEN RZero ELSE NaN)
    ELSE IF ~IsFinite(a) THEN <<a[1] * (IF b[1] < 0 THEN -1 ELSE 1), 0>>
    ELSE IF b[1] = 0 THEN <<Sgn(a[1]), 0>>
    ELSE RDiv(a, b)

(***************************************************************************)
(* The global random generator np.random.  Its state is one integer; a     *)
(* draw advances it by one step of a linear congruential generator and     *)
(* reads the value off the new state.                                      *)
(***************************************************************************)
RngMod == 32768
RngMul == 25173
RngInc == 13849
RngNext(st) == (st * RngMul + RngInc) % RngMod
\* k steps are the affine map x |-> a * x + c (mod RngMod), <<a, c>>
RECURSIVE RngSteps(_)
RngSteps(k) ==
    IF k = 0 THEN <<1, 0>>
    ELSE IF k % 2 = 1
    THEN LET m == RngSteps(k - 1)
         IN  <<(RngMul * m[1]) % RngMod, (RngMul * m[2] + RngInc) % RngMod>>
    ELSE LET m == RngSteps(k \div 2)
         IN  <<(m[1] * m[1]) % RngMod, (m[1] * m[2] + m[2]) % RngMod>>
\* the state after k draws
RngAt(st, k) == LET m == RngSteps(k) IN (m[1] * st + m[2]) % RngMod
np_random_seed(seed) == seed % RngMod
\* a standard normal value, in {-2, -1, 0, 1, 2} at resolution FP
StdNormal(st) == (((st \div 256) % 5) - 2) * FP
\* a uniform value of [0, 1) at resolution FP
Uniform(st) == (st \div 64) % FP

(***************************************************************************)
(* Monte-Carlo engine (src/app.py:3807-4150).                              *)
(***************************************************************************)
SEASONAL_VOL == <<142, 138, 118, 102, 88, 82, 78, 82, 92, 108, 122, 145>>
_seasonal_vol_multiplier(month) ==
    IF month \in DOMAIN SEASONAL_VOL THEN SEASONAL_VOL[month] ELSE FP

HOUR_SCALE ==
    << 65, 58, 52, 50, 52, 60, 78, 105, 125, 130, 120, 115,
       110, 112, 115, 120, 130, 145, 155, 150, 135, 115, 90, 72 >>
_hour_imbalance_scale(hour) == HOUR_SCALE[hour + 1]

FMulFix(a, b) == TDiv(a * b, FP)        \* product of two fixed-point values
SqrtFix(v) == ISqrt(v * FP)             \* square root of a fixed-point value
Clip(x, lo, hi) == Max(lo, Min(x, hi))

GVarMin == 50          \* 0.5
GVarMax == 800000      \* 8000.0
SpotMin == -20000      \* -200.0
SpotMax == 300000      \* 3000.0
penalty_base == 500    \* 5.0
penalty_scale == 15
MaxDiagPaths == 50
MaxDiagHours == 8760
ProgressSteps == 300

\* lines 3921-3922; the floor 1e-12 is below the resolution and reads 0
L11Of(p) == ISqrt(Max(0, FP * FP - p.correlation * p.correlation))
PhiFOf(p) == ISqrt(Max(0, FP * FP - p.phi * p.phi))
SigVOf(p) == TDiv(p.vol_error * FP, 100)
RhoOf(p) == TDiv(p.correlation * FP, 100)

\* lines 3925-3929
YearsOf(d) == 1..Len(d.years)
vol_y(d) ==
    [y \in YearsOf(d) |->
        SeqSum([h \in 1..d.n_hours |->
                   IF d.year_map[h] = y - 1 THEN d.load[h] ELSE 0])]
pc_y(d) ==
    [y \in YearsOf(d) |->
        SeqSum([h \in 1..d.n_hours |->
                   IF d.year_map[h] = y - 1 THEN d.hpfc[h] * d.load[h] ELSE 0])]

\* the five vector draws of one hour, in the order of the code
HourDraws(st, N) ==
    [z1 |-> [i \in 1..N |-> StdNormal(RngAt(st, i))],
     z2 |-> [i \in 1..N |-> StdNormal(RngAt(st, N + i))],
     u  |-> [i \in 1..N |-> Uniform(RngAt(st, 2 * N + i))],
     jn |-> [i \in 1..N |-> StdNormal(RngAt(st, 3 * N + i))],
     pz |-> [i \in 1..N |-> StdNormal(RngAt(st, 4 * N + i))]]
DrawsPerHour(N) == 5 * N

\* lines 3970-3977: conditional variance and effective volatility of a path
GVarStep(p, gv, dw_p) ==
    LET innovation_sq == FMulFix(FMulFix(SqrtFix(gv), dw_p), FMulFix(SqrtFix(gv), dw_p))
    IN  IF p.garch_enabled
        THEN Clip(p.garch_omega + FMulFix(p.garch_alpha, innovation_sq)
                      + FMulFix(p.garch_beta, gv), GVarMin, GVarMax)
        ELSE gv
SigT(p, gvNew, s_vol) ==
    IF p.garch_enabled THEN FMulFix(SqrtFix(gvNew), s_vol)
    ELSE FMulFix(p.sigma_price, s_vol)

\* lines 3982-3983
JumpSize(p, u, jn) == IF u < p.jump_prob THEN FMulFix(p.jump_size, jn) ELSE 0

\* lines 3989-3990
SpotStep_unclipped(p, sp, hp, sig_t, dw_p, jump) ==
    sp + FMulFix(p.kappa, hp - sp) + FMulFix(sig_t, dw_p) + jump
SpotStep(p, sp, hp, sig_t, dw_p, jump) ==
    Clip(sp + FMulFix(p.kappa, hp - sp) + FMulFix(sig_t, dw_p) + jump,
         SpotMin, SpotMax)

\* line 3996
VsStep(p, v, dw_v) ==
    FMulFix(p.phi, v) + FMulFix(FMulFix(PhiFOf(p), SigVOf(p)), dw_v)

\* lines 3997-4000
DeltaQ(ld, v) == Max(FMulFix(ld, FP + v), 0) - ld

\* lines 4007-4010
PenaltyTotal(pz, hour) ==
    FMulFix(penalty_base + Abs(pz) * penalty_scale, _hour_imbalance_scale(hour))

\* line 4011: the amount added to imb[:, y]
ImbIncrement_signed(dq, penalty_total) == FMulFix(dq, penalty_total)
ImbIncrement(dq, penalty_total) == FMulFix(Abs(dq), penalty_total)

\* line 4019: the amount added to vp[:, y]
VpIncrement(dq, sp, hp) == FMulFix(dq, sp - hp)

\* float32 keeps 24 significant bits
AsFloat32(x) == IF Abs(x) < 16777216 THEN x ELSE TDiv(x, 2) * 2

(***************************************************************************)
(* Post-processing of a run (lines 4046-4150).  Premiums are rationals in  *)
(* EUR/MWh; a loss sample is in hundredths of a EUR, a volume in           *)
(* hundredths of a MWh, so premium = loss measure / volume.                *)
(***************************************************************************)
Col(M, y) == [i \in 1..Len(M) |-> M[i][y]]
RowSums(M) == [i \in 1..Len(M) |-> SeqSum(M[i])]

\* (m.EL + m.UL * r_ec) / V, lines 4058, 4062, 4091, 4092
RiskPremium_el_only(m, cc, V) == FDiv(m.EL, RInt(V))
RiskPremium(m, cc, V) ==
    FDiv(RAdd(m.EL, RMul(m.UL, RNorm(cc, 100))), RInt(V))

\* pc / V - bp, lines 4054 and 4085
StructPremium(pc, V, bp) == FSub(FDiv(RInt(pc), RInt(V * FP)), RNorm(bp, FP))

YearResult(d, p, imbM, vpM, y) ==
    LET V == vol_y(d)[y]
        struct_prem == StructPremium(pc_y(d)[y], V, p.base_price)
        im_metrics == compute_risk_metrics(Col(imbM, y), p.confidence)
        prog_prem == RiskPremium(im_metrics, p.cost_of_capital, V)
        vp_metrics == compute_risk_metrics(Col(vpM, y), p.confidence)
        vp_prem == RiskPremium(vp_metrics, p.cost_of_capital, V)
    IN  [yi |-> y - 1, year |-> d.years[y], vol |-> V,
         struktur |-> struct_prem, prognose |-> prog_prem,
         vp_prem |-> vp_prem,
         gesamt |-> FAdd(FAdd(struct_prem, prog_prem), vp_prem),
         im |-> im_metrics, vm |-> vp_metrics]

\* sum of a sequence of rationals
RECURSIVE FSum(_)
FSum(s) == IF s = <<>> THEN RZero ELSE FAdd(s[1], FSum(Tail(s)))

\* lines 4103-4119: the sample sizes of the convergence diagnostic.  Below
\* 30 paths it is the single size N.  From 30 paths on it is the distinct
\* integer parts of 10 ** linspace(log10(max(30, N // 50)), log10(N), steps);
\* LogGrid holds them for the path counts used here (the first and the last
\* power fall just below 30 and 51 in float64)
ConvergenceSteps(N) == Min(100, N \div 5)
LogGrid == [n \in {MaxDiagPaths + 1} |-> <<29, 31, 33, 35, 37, 40, 42, 45, 48, 50>>]
convergence_ns(N) == IF ConvergenceSteps(N) > 5 THEN LogGrid[N] ELSE <<N>>

PostProcess(d, p, imbM, vpM, spotS, volS) ==
    LET N == p.paths
        yearIdx == SelectSeq([y \in YearsOf(d) |-> y], LAMBDA y : vol_y(d)[y] >= 1)
        yearly_results == [k \in 1..Len(yearIdx) |->
                              YearResult(d, p, imbM, vpM, yearIdx[k])]
        imb_tot == RowSums(imbM)
        vp_tot == RowSums(vpM)
        total_loss == [i \in 1..Len(imbM) |-> imb_tot[i] + vp_tot[i]]
        Vt == SeqSum(vol_y(d))
        sp_total == StructPremium(SeqSum(pc_y(d)), Vt, p.base_price)
        im_total == compute_risk_metrics(imb_tot, p.confidence)
        vm_total == compute_risk_metrics(vp_tot, p.confidence)
        combined_total == compute_risk_metrics(total_loss, p.confidence)
        pp_total == RiskPremium(im_total, p.cost_of_capital, Vt)
        vp_total_prem == RiskPremium(vm_total, p.cost_of_capital, Vt)
        gesamt_total == FAdd(FAdd(sp_total, pp_total), vp_total_prem)
        standalone_risk ==
            FDiv(FSum([k \in 1..Len(yearly_results) |->
                          FMul(FAdd(yearly_results[k].prognose,
                                    yearly_results[k].vp_prem),
                               RInt(yearly_results[k].vol))]),
                 RInt(Vt))
        portfolio_risk == FAdd(pp_total, vp_total_prem)
        div_benefit == FSub(standalone_risk, portfolio_risk)
        ns == convergence_ns(N)
        conv == [k \in 1..Len(ns) |->
                    IF ConvergenceSteps(N) > 5
                    THEN compute_risk_metrics(SubSeq(total_loss, 1, ns[k]),
                                              p.confidence)
                    ELSE combined_total]
        conv_cvar == [k \in 1..Len(ns) |-> conv[k].CVaR]
        conv_var == [k \in 1..Len(ns) |-> conv[k].VaR]
    IN  [yearly |-> yearly_results,
         total |-> [vol |-> Vt, struktur |-> sp_total, prognose |-> pp_total,
                    vp_prem |-> vp_total_prem, gesamt |-> gesamt_total,
                    im |-> im_total, vm |-> vm_total,
                    combined |-> combined_total, div_benefit |-> div_benefit],
         raw |-> [imb_y |-> imbM, vp_y |-> vpM, imb_tot |-> imb_tot,
                  vp_tot |-> vp_tot, total_loss |-> total_loss],
         diagnostics |-> [spot_samples |-> spotS, vol_error_samples |-> volS,
                          convergence_ns |-> ns,
                          convergence_cvar |-> conv_cvar,
                          convergence_var |-> conv_var,
                          n_diag_paths |-> Min(N, MaxDiagPaths),
                          n_diag_hours |-> Min(d.n_hours, MaxDiagHours)]]

(***************************************************************************)
(* Sensitivities (lines 4340-4525).  Parameter values, shocks and shifted  *)
(* premiums are exact rationals; np.sqrt is taken to two decimals.         *)
(***************************************************************************)
\* params[name] as the number the code reads
ParamValue(p, name) ==
    CASE name = "vol_error" -> RInt(p.vol_error)
      [] name = "correlation" -> RInt(p.correlation)
      [] name = "sigma_price" -> RNorm(p.sigma_price, FP)
      [] name = "kappa" -> RNorm(p.kappa, FP)
      [] name = "phi" -> RNorm(p.phi, FP)
      [] name = "jump_prob" -> RNorm(p.jump_prob, FP)
      [] name = "jump_size" -> RNorm(p.jump_size, FP)
      [] name = "cost_of_capital" -> RInt(p.cost_of_capital)
      [] name = "base_price" -> RNorm(p.base_price, FP)

\* np.sqrt of a non-negative rational, to two decimals
SqrtRat(r) ==
    IF r[1] <= 0 THEN RZero
    ELSE IF r[1] \div r[2] >= 10000 THEN RInt(ISqrt(r[1] \div r[2]))
    ELSE LET k == r[1] \div 200000 + 1
             n == r[1] \div k
             d == Max(1, r[2] \div k)
         IN  RNorm(ISqrt((n * 10000) \div d), 100)

\* 1.0 / max(1e-6, 1.0 - x ** 2), lines 4412-4413
EffectiveVariance(x) ==
    RDiv(RInt(1), RMax(RNorm(1, 1000000), RSub(RInt(1), RMul(x, x))))

\* the factor applied to the two risk premiums for a shifted phi,
\* lines 4412-4417
PhiRatio_uncapped(orig, new_value) ==
    SqrtRat(RDiv(EffectiveVariance(new_value), EffectiveVariance(orig)))
PhiRatio(orig, new_value) ==
    RMin(RInt(5),
         SqrtRat(RDiv(EffectiveVariance(new_value), EffectiveVariance(orig))))

\* struktur + prognose * f + vp_prem * g
ScaledPremium(base, f, g) ==
    FAdd(FAdd(base.struktur, FMul(base.prognose, f)), FMul(base.vp_prem, g))

\* lines 4340-4458, for the parameter names compute_sensitivities passes
_analytical_premium_approx(p, res, param_name, new_value) ==
    LET base == res.total
        orig == ParamValue(p, param_name)
        one == RInt(1)
        risk == FAdd(base.prognose, base.vp_prem)
    IN  CASE param_name = "base_price" ->
                FSub(base.gesamt, RSub(new_value, orig))
          [] param_name = "vol_error" ->
                LET ratio == IF orig[1] > 0 THEN RDiv(new_value, orig) ELSE one
                IN  ScaledPremium(base, ratio, ratio)
          [] param_name = "correlation" ->
                LET orig_frac == RMul(orig, RNorm(1, 100))
                    new_frac == RMul(new_value, RNorm(1, 100))
                    vp_ratio ==
                        IF RLt(RNorm(1, 100), RAbs(orig_frac))
                        THEN RAdd(RNorm(4, 10),
                                  RMul(RNorm(6, 10), RDiv(new_frac, orig_frac)))
                        ELSE RAdd(one, RMul(RInt(2), RSub(new_frac, orig_frac)))
                IN  ScaledPremium(base, one, RMax(RNorm(1, 10), vp_ratio))
          [] param_name = "sigma_price" ->
                LET ratio == IF orig[1] > 0 THEN RDiv(new_value, orig) ELSE one
                IN  ScaledPremium(base, SqrtRat(ratio), SqrtRat(ratio))
          [] param_name = "kappa" ->
                LET ratio == IF RLt(RNorm(1, 1000), new_value)
                             THEN SqrtRat(RDiv(orig, new_value))
                             ELSE RInt(3)
                IN  ScaledPremium(base, RMin(RInt(3), ratio), RMin(RInt(3), ratio))
          [] param_name = "phi" ->
                ScaledPremium(base, PhiRatio(orig, new_value),
                              PhiRatio(orig, new_value))
          [] param_name = "jump_prob" ->
                LET ratio == IF RLt(RNorm(1, 1000), orig)
                             THEN RDiv(new_value, orig) ELSE one
                    tail_factor == RMul(RNorm(3, 10), RSub(ratio, one))
                IN  FAdd(base.struktur, FMul(risk, RAdd(one, tail_factor)))
          [] param_name = "jump_size" ->
                LET ratio == IF RLt(one, orig) THEN RDiv(new_value, orig) ELSE one
                    tail_factor == RMul(RNorm(2, 10), RSub(ratio, one))
                IN  FAdd(base.struktur, FMul(risk, RAdd(one, tail_factor)))
          [] param_name = "cost_of_capital" ->
                LET old_r == RMul(orig, RNorm(1, 100))
                    new_r == RMul(new_value, RNorm(1, 100))
                IN  IF RLt(RNorm(1, 1000), old_r)
                    THEN FAdd(base.struktur,
                              FMul(risk, RAdd(RNorm(55, 100),
                                              RMul(RNorm(45, 100),
                                                   RDiv(new_r, old_r)))))
                    ELSE base.gesamt
          [] OTHER -> base.gesamt

\* lines 4481-4491: parameter and shock size
shock_definitions ==
    << [pname |-> "vol_error", delta |-> RInt(2)],
       [pname |-> "correlation", delta |-> RInt(10)],
       [pname |-> "sigma_price", delta |-> RInt(3)],
       [pname |-> "kappa", delta |-> RNorm(3, 100)],
       [pname |-> "phi", delta |-> RNorm(2, 100)],
       [pname |-> "jump_prob", delta |-> RNorm(1, 100)],
       [pname |-> "jump_size", delta |-> RInt(20)],
       [pname |-> "cost_of_capital", delta |-> RInt(3)],
       [pname |-> "base_price", delta |-> RInt(5)] >>

\* lines 4495-4505: the two evaluation points of a row
UpVal(pname, base_val, delta) ==
    IF pname = "phi" THEN RMin(RAdd(base_val, delta), RNorm(998, 1000))
    ELSE RAdd(base_val, delta)
DnVal(pname, base_val, delta) ==
    CASE pname = "phi" -> RMax(RSub(base_val, delta), RNorm(3, 10))
      [] pname = "jump_prob" -> RMax(RSub(base_val, delta), RZero)
      [] pname = "kappa" -> RMax(RSub(base_val, delta), RNorm(5, 1000))
      [] OTHER -> RSub(base_val, delta)

\* lines 4479-4525
compute_sensitivities(p, res) ==
    LET base_premium == res.total.gesamt
    IN  [k \in DOMAIN shock_definitions |->
            LET pname == shock_definitions[k].pname
                delta == shock_definitions[k].delta
                base_val == ParamValue(p, pname)
                up_val == UpVal(pname, base_val, delta)
                dn_val == DnVal(pname, base_val, delta)
                up_prem == _analytical_premium_approx(p, res, pname, up_val)
                dn_prem == _analytical_premium_approx(p, res, pname, dn_val)
            IN  [parameter |-> pname, base |-> base_val, delta |-> delta,
                 impact_up |-> FSub(up_prem, base_premium),
                 impact_dn |-> FSub(dn_prem, base_premium),
                 sensitivity |->
                     IF delta[1] > 0
                     THEN FDiv(FSub(up_prem, dn_prem), RMul(RInt(2), delta))
                     ELSE RZero]]

(***************************************************************************)
(* Datasets and parameter sets of the model.                               *)
(***************************************************************************)
\* one delivery year, two hours of a January night
DataOneYear ==
    [name |-> "one-year", n_hours |-> 2, load |-> <<100, 200>>,
     hpfc |-> <<8000, 8500>>, year_map |-> <<0, 0>>, years |-> <<2026>>,
     dates |-> <<[month |-> 1, hour |-> 0], [month |-> 1, hour |-> 1]>>]
\* two delivery years: the last two hours of 2026 and the first of 2027
DataTwoYears ==
    [name |-> "two-years", n_hours |-> 3, load |-> <<150, 100, 200>>,
     hpfc |-> <<9000, -1000, 8000>>, year_map |-> <<0, 0, 1>>,
     years |-> <<2026, 2027>>,
     dates |-> <<[month |-> 12, hour |-> 22], [month |-> 12, hour |-> 23],
                 [month |-> 1, hour |-> 0]>>]
\* an imported series whose load column is all zero
DataZeroLoad ==
    [name |-> "zero-load", n_hours |-> 2, load |-> <<0, 0>>,
     hpfc |-> <<8000, 8000>>, year_map |-> <<0, 0>>, years |-> <<2026>>,
     dates |-> <<[month |-> 6, hour |-> 12], [month |-> 6, hour |-> 13]>>]
\* an imported series with negative load values
DataNegativeLoad ==
    [name |-> "negative-load", n_hours |-> 2, load |-> <<-100, -300>>,
     hpfc |-> <<8000, 8000>>, year_map |-> <<0, 0>>, years |-> <<2026>>,
     dates |-> <<[month |-> 6, hour |-> 12], [month |-> 6, hour |-> 13]>>]
\* a long series of one year, load alternating between 1 and 2 MWh
DataLong ==
    [name |-> "long", n_hours |-> LongHours,
     load |-> [h \in 1..LongHours |-> 100 + 100 * (h % 2)],
     hpfc |-> [h \in 1..LongHours |-> 8000],
     year_map |-> [h \in 1..LongHours |-> 0], years |-> <<2026>>,
     dates |-> [h \in 1..LongHours |-> [month |-> 1, hour |-> h % 24]]]

\* an imported series of two years; the loads of the first cancel out
DataNetZeroYear ==
    [name |-> "net-zero-year", n_hours |-> 3, load |-> <<100, -100, 200>>,
     hpfc |-> <<9000, 7000, 8000>>, year_map |-> <<0, 0, 1>>,
     years |-> <<2026, 2027>>,
     dates |-> <<[month |-> 12, hour |-> 22], [month |-> 12, hour |-> 23],
                 [month |-> 1, hour |-> 0]>>]

SyntheticDatasets == {DataOneYear, DataTwoYears}
ImportedDatasets == {DataTwoYears, DataZeroLoad}
StressDatasets ==
    {DataOneYear, DataTwoYears, DataZeroLoad, DataNegativeLoad, DataLong}

\* the sidebar defaults (lines 7073-7103) with a two-path run
ParamsDefault ==
    [paths |-> 2, kappa |-> 10, sigma_price |-> 1500, vol_error |-> 10,
     phi |-> 80, correlation |-> 60, jump_prob |-> 10, jump_size |-> 8000,
     cost_of_capital |-> 15, confidence |-> 950, base_price |-> 8000,
     garch_enabled |-> TRUE, garch_omega |-> 500, garch_alpha |-> 8,
     garch_beta |-> 88, seed |-> 42]
ParamChoices ==
    { ParamsDefault,
      [ParamsDefault EXCEPT !.seed = 7],
      [ParamsDefault EXCEPT !.garch_alpha = 20, !.garch_beta = 80],
      [ParamsDefault EXCEPT !.garch_enabled = FALSE, !.paths = 1,
                            !.confidence = 900] }

\* the generator state a fresh process starts from (seeded by the system)
EntropyStates == {11, 54321, 30003}
ExampleSeed == 123
ExampleDraws == 672

(***************************************************************************)
(* State.                                                                  *)
(***************************************************************************)
VARIABLES
    \* harness of compute_risk_metrics
    rm_losses, rm_alpha, rm_out, rm_called,
    \* the floating-point error state of numpy ("warn" unless a caller set
    \* np.seterr), the risk_aversion passed in, and (history) the measures
    \* the last call replaced by its fallback
    np_errstate, rm_gamma, rm_fallback,
    \* harness of the stress tests
    stress_one, stress_all,
    \* st.session_state and the process-wide generator
    data, params, results, run_flag, simulation_count, rng,
    \* locals of run_simulation while it runs
    pc, t, imb, vp, spot, vs, g_var, delta_q, spot_samples,
    vol_error_samples, bar,
    \* history: input and loss arrays of the first completed run
    first_run,
    \* the sensitivity table last rendered, and the harness of
    \* _analytical_premium_approx
    sens, ap_args, ap_out,
    \* harness of the dataset builders
    cv_in, cv_out,
    \* another session stepped during the current run; the user asked the
    \* current run to stop
    interfered, cancel_requested

rmVars == <<rm_losses, rm_alpha, rm_out, rm_called, np_errstate, rm_gamma,
           rm_fallback>>
stressVars == <<stress_one, stress_all>>
sessionVars == <<data, params, results, run_flag, simulation_count>>
runVars == <<pc, t, imb, vp, spot, vs, g_var, delta_q, spot_samples,
             vol_error_samples, bar>>
sensVars == <<sens, ap_args, ap_out>>
convVars == <<cv_in, cv_out>>
ctlVars == <<interfered, cancel_requested>>
extVars == <<sensVars, convVars, ctlVars>>
vars == <<rmVars, stressVars, sessionVars, rng, runVars, first_run, extVars>>

LossVals == {-200, 0, 100, 250, 300}
Alphas == {0, 500, 750, 900, 950, 1000}
RECURSIVE SeqsUpTo(_, _)
SeqsUpTo(S, n) ==
    IF n = 0 THEN {<<>>}
    ELSE LET shorter == SeqsUpTo(S, n - 1)
         IN  shorter \cup {Append(q, x) : q \in {r \in shorter : Len(r) = n - 1}, x \in S}

ErrIdle == np_errstate = "warn" /\ rm_gamma = risk_aversion /\ rm_fallback = {}
RmIdle ==
    /\ rm_losses = <<>> /\ rm_alpha = 950 /\ rm_out = RiskMetrics /\ rm_called = FALSE
    /\ ErrIdle
StressIdle == stress_one = <<>> /\ stress_all = <<>>
NoBar == [pct |-> RZero, shown |-> FALSE]
\* lines 4038-4040: the bar is set to 1.0 and then removed
BarDone == [pct |-> RInt(1), shown |-> FALSE]
RunIdle ==
    /\ pc = "idle" /\ t = 0 /\ imb = <<>> /\ vp = <<>> /\ spot = <<>>
    /\ vs = <<>> /\ g_var = <<>> /\ delta_q = <<>> /\ spot_samples = <<>>
    /\ vol_error_samples = <<>> /\ bar = NoBar
SessionFresh ==
    /\ data = <<>> /\ results = <<>> /\ run_flag = FALSE
    /\ simulation_count = 0 /\ first_run = <<>>
SensIdle == sens = <<>> /\ ap_args = <<>> /\ ap_out = <<>>
ConvIdle == cv_in = <<>> /\ cv_out = <<>>
CtlIdle == interfered = FALSE /\ cancel_requested = FALSE
ExtIdle == SensIdle /\ ConvIdle /\ CtlIdle

(***************************************************************************)
(* The session: main() and run_simulation_and_display().                   *)
(***************************************************************************)
Init ==
    /\ RmIdle /\ StressIdle /\ RunIdle /\ SessionFresh /\ ExtIdle
    /\ params = ParamsDefault
    /\ rng \in EntropyStates

\* the sensitivities tab (line 6860), rendered by every script run that
\* reaches the dashboard with stored results
RenderSens(p, res) ==
    IF res = <<>> THEN <<>> ELSE compute_sensitivities(p, res[1])

\* the sidebar widgets (lines 7049-7116)
SetParams(p) ==
    /\ pc = "idle"
    /\ p # params
    /\ params' = p
    /\ sens' = RenderSens(p, results)
    /\ UNCHANGED <<ap_args, ap_out, convVars, ctlVars, rmVars, stressVars, data, results, run_flag,
                   simulation_count, rng, runVars, first_run>>

\* "Generieren" (lines 7162-7168): generate_synthetic_data seeds the global
\* generator and draws one normal per hour for the price curve
Generate(d) ==
    /\ pc = "idle"
    /\ data' = <<d>>
    /\ results' = <<>>
    /\ sens' = <<>>
    /\ rng' = RngAt(np_random_seed(params.seed), d.n_hours)
    /\ UNCHANGED <<ap_args, ap_out, convVars, ctlVars, rmVars, stressVars, params, run_flag, simulation_count,
                   runVars, first_run>>

Import_keeps_results(d) ==
    /\ pc = "idle"
    /\ data' = <<d>>
    /\ sens' = RenderSens(params, results)
    /\ UNCHANGED <<ap_args, ap_out, convVars, ctlVars, rmVars, stressVars, params, results, run_flag,
                   simulation_count, rng, runVars, first_run>>
\* "Uebernehmen" of pasted or uploaded data (lines 7211-7219, 7253-7265)
Import(d) ==
    /\ pc = "idle"
    /\ data' = <<d>>
    /\ results' = <<>>
    /\ sens' = <<>>
    /\ UNCHANGED <<ap_args, ap_out, convVars, ctlVars, rmVars, stressVars, params, run_flag, simulation_count,
                   rng, runVars, first_run>>

\* "Beispieldaten" (lines 7222-7232)
ExampleData ==
    /\ pc = "idle"
    /\ rng' = RngAt(np_random_seed(ExampleSeed), ExampleDraws)
    /\ rng' # rng
    /\ sens' = RenderSens(params, results)
    /\ UNCHANGED <<ap_args, ap_out, convVars, ctlVars, rmVars, stressVars, sessionVars, runVars, first_run>>

\* lines 3939-3942: the size of the two diagnostic buffers
n_diag_paths_uncapped(N) == N
n_diag_paths(N) == Min(N, MaxDiagPaths)
n_diag_hours(T) == Min(T, MaxDiagHours)

\* line 4028: pct = t / T
ProgressPct_percent(tt, T) == RNorm(100 * tt, T)
ProgressPct(tt, T) == RNorm(tt, T)

\* lines 3932-3933: np.zeros((N, n_years))
AllocLoss_ones(N, Y) == [i \in 1..N |-> [y \in 1..Y |-> 1]]
AllocLoss(N, Y) == [i \in 1..N |-> [y \in 1..Y |-> 0]]

\* line 6623: the generator state the run starts from
SeedForRun_unseeded(st, p) == st
SeedForRun(st, p) == np_random_seed(p.seed)

\* the start button (line 7323) and the script up to the hour loop
\* (lines 6622-6624, 3895-3946)
StartRun ==
    /\ pc = "idle"
    /\ data # <<>>
    /\ simulation_count < MaxRuns
    /\ LET d == data[1]
           N == params.paths
           Y == Len(d.years)
           dp == n_diag_paths(N)
           dh == n_diag_hours(d.n_hours)
       IN  /\ run_flag' = TRUE
           /\ rng' = SeedForRun(rng, params)
           /\ imb' = AllocLoss(N, Y)
           /\ vp' = AllocLoss(N, Y)
           /\ spot' = [i \in 1..N |-> d.hpfc[1]]
           /\ vs' = [i \in 1..N |-> 0]
           /\ g_var' = [i \in 1..N |-> FMulFix(params.sigma_price, params.sigma_price)]
           /\ delta_q' = [i \in 1..N |-> 0]
           /\ spot_samples' = [i \in 1..dp |-> [h \in 1..dh |-> 0]]
           /\ vol_error_samples' = [i \in 1..dp |-> [h \in 1..dh |-> 0]]
           /\ bar' = [pct |-> RZero, shown |-> TRUE]
    /\ pc' = "loop"
    /\ t' = 0
    /\ interfered' = FALSE
    /\ cancel_requested' = FALSE
    /\ UNCHANGED <<sensVars, convVars, rmVars, stressVars, data, params,
                   results, simulation_count, first_run>>

\* line 3953, y = year_map[t]: the column of both loss matrices that hour h
\* (counted from 1) adds to
YearColumn_first(d, h) == 1
YearColumn(d, h) == d.year_map[h] + 1

\* one pass of the hour loop (lines 3952-4036)
RunHour ==
    /\ pc = "loop"
    /\ t < data[1].n_hours
    /\ LET d == data[1]
           p == params
           N == p.paths
           h == t + 1
           y == YearColumn(d, h)
           month == d.dates[h].month
           hour == d.dates[h].hour
           s_vol == _seasonal_vol_multiplier(month)
           dr == HourDraws(rng, N)
           dw_p == dr.z1
           dw_v == [i \in 1..N |->
                       FMulFix(RhoOf(p), dr.z1[i]) + FMulFix(L11Of(p), dr.z2[i])]
           gv == [i \in 1..N |-> GVarStep(p, g_var[i], dw_p[i])]
           sig_t == [i \in 1..N |-> SigT(p, gv[i], s_vol)]
           sp == [i \in 1..N |->
                     SpotStep(p, spot[i], d.hpfc[h], sig_t[i], dw_p[i],
                              JumpSize(p, dr.u[i], dr.jn[i]))]
           v == [i \in 1..N |-> VsStep(p, vs[i], dw_v[i])]
           dq == [i \in 1..N |-> DeltaQ(d.load[h], v[i])]
           ndp == n_diag_paths(N)
           ndh == n_diag_hours(d.n_hours)
           update_freq == Max(1, d.n_hours \div ProgressSteps)
       IN  /\ g_var' = gv
           /\ spot' = sp
           /\ vs' = v
           /\ delta_q' = dq
           /\ imb' = [i \in 1..N |->
                        [imb[i] EXCEPT ![y] =
                            @ + ImbIncrement(dq[i], PenaltyTotal(dr.pz[i], hour))]]
           /\ vp' = [i \in 1..N |->
                        [vp[i] EXCEPT ![y] = @ + VpIncrement(dq[i], sp[i], d.hpfc[h])]]
           /\ IF t < ndh
              THEN /\ spot_samples' =
                        [i \in 1..ndp |->
                            [spot_samples[i] EXCEPT ![h] = AsFloat32(sp[i])]]
                   /\ vol_error_samples' =
                        [i \in 1..ndp |->
                            [vol_error_samples[i] EXCEPT ![h] = AsFloat32(v[i])]]
              ELSE UNCHANGED <<spot_samples, vol_error_samples>>
           /\ IF t % update_freq = 0
              THEN bar' = [pct |-> ProgressPct(t, d.n_hours), shown |-> TRUE]
              ELSE UNCHANGED bar
           /\ rng' = RngAt(rng, DrawsPerHour(N))
    /\ t' = t + 1
    /\ UNCHANGED <<extVars, rmVars, stressVars, sessionVars, pc, first_run>>

\* the end of run_simulation and the publication of its result
\* (lines 4038-4150, 6625-6629)
FinishRun ==
    /\ pc = "loop"
    /\ t = data[1].n_hours
    /\ results' = <<PostProcess(data[1], params, imb, vp, spot_samples,
                                vol_error_samples)>>
    /\ run_flag' = FALSE
    /\ simulation_count' = simulation_count + 1
    /\ first_run' = IF first_run = <<>>
                    THEN <<[data |-> data[1], params |-> params,
                            imb_y |-> imb, vp_y |-> vp,
                            alone |-> ~interfered]>>
                    ELSE first_run
    /\ pc' = "idle" /\ t' = 0 /\ imb' = <<>> /\ vp' = <<>> /\ spot' = <<>>
    /\ vs' = <<>> /\ g_var' = <<>> /\ delta_q' = <<>> /\ spot_samples' = <<>>
    /\ vol_error_samples' = <<>> /\ bar' = BarDone
    /\ sens' = RenderSens(params, results')
    /\ UNCHANGED <<ap_args, ap_out, convVars, ctlVars, rmVars, stressVars, data, params, rng>>

\* what the session holds as results after the hour loop raised (no handler
\* at lines 6622-6629 or in run_simulation: the assignment of line 6625 is
\* not reached)
AbortedResults_partial(res, d, p, imbM, vpM, spotS, volS) ==
    <<PostProcess(d, p, imbM, vpM, spotS, volS)>>
AbortedResults(res, d, p, imbM, vpM, spotS, volS) == res

\* an exception inside the hour loop (memory exhaustion of a numpy
\* allocation, lines 3952-4036): the locals are dropped, the script run ends,
\* the flag of line 6626 is not reset
Abort ==
    /\ pc = "loop"
    /\ t < data[1].n_hours
    /\ results' = AbortedResults(results, data[1], params, imb, vp,
                                 spot_samples, vol_error_samples)
    /\ pc' = "idle" /\ t' = 0 /\ imb' = <<>> /\ vp' = <<>> /\ spot' = <<>>
    /\ vs' = <<>> /\ g_var' = <<>> /\ delta_q' = <<>> /\ spot_samples' = <<>>
    /\ vol_error_samples' = <<>>
    /\ sens' = <<>>
    /\ UNCHANGED <<ap_args, ap_out, convVars, ctlVars, rmVars, stressVars, data, params, run_flag,
                   simulation_count, rng, bar, first_run>>

\* the user asks the running simulation to stop; the loop of lines
\* 3952-4036 reads no such request
RequestCancel ==
    /\ pc = "loop"
    /\ cancel_requested = FALSE
    /\ cancel_requested' = TRUE
    /\ UNCHANGED <<sensVars, convVars, interfered, rmVars, stressVars,
                   sessionVars, rng, runVars, first_run>>

\* a script run that finds the flag of line 7323 still set, started by a
\* sidebar widget and not by the start button: line 7329 enters
\* run_simulation_and_display and line 6622 runs the simulation
RerunWithFlag(p) ==
    /\ pc = "idle"
    /\ data # <<>>
    /\ run_flag = TRUE
    /\ simulation_count < MaxRuns
    /\ p # params
    /\ params' = p
    /\ LET d == data[1]
           N == p.paths
           Y == Len(d.years)
           dp == n_diag_paths(N)
           dh == n_diag_hours(d.n_hours)
       IN  /\ rng' = SeedForRun(rng, p)
           /\ imb' = AllocLoss(N, Y)
           /\ vp' = AllocLoss(N, Y)
           /\ spot' = [i \in 1..N |-> d.hpfc[1]]
           /\ vs' = [i \in 1..N |-> 0]
           /\ g_var' = [i \in 1..N |-> FMulFix(p.sigma_price, p.sigma_price)]
           /\ delta_q' = [i \in 1..N |-> 0]
           /\ spot_samples' = [i \in 1..dp |-> [h \in 1..dh |-> 0]]
           /\ vol_error_samples' = [i \in 1..dp |-> [h \in 1..dh |-> 0]]
           /\ bar' = [pct |-> RZero, shown |-> TRUE]
    /\ pc' = "loop"
    /\ t' = 0
    /\ interfered' = FALSE
    /\ cancel_requested' = FALSE
    /\ UNCHANGED <<sensVars, convVars, rmVars, stressVars, data, run_flag,
                   results, simulation_count, first_run>>

Next ==
    \/ \E p \in ParamChoices : SetParams(p)
    \/ \E d \in SyntheticDatasets : Generate(d)
    \/ \E d \in ImportedDatasets : Import(d)
    \/ ExampleData
    \/ StartRun
    \/ RunHour
    \/ FinishRun

Spec == Init /\ [][Next]_vars

(***************************************************************************)
(* Runs that are interrupted, and runs at the edges of the input ranges:   *)
(* a session with an imported dataset whose first year has no net volume,  *)
(* or with the parameters at the ends of their sliders; the script may     *)
(* raise inside the hour loop and the user may ask the run to stop.        *)
(***************************************************************************)
EdgeDatasets == {DataOneYear, DataNetZeroYear}
EdgeParams ==
    { ParamsDefault,
      [ParamsDefault EXCEPT !.phi = 99, !.kappa = 1, !.jump_prob = 0] }

InitRun ==
    /\ RmIdle /\ StressIdle /\ RunIdle /\ ExtIdle
    /\ \E d \in EdgeDatasets : data = <<d>>
    /\ results = <<>> /\ run_flag = FALSE /\ simulation_count = 0
    /\ first_run = <<>>
    /\ params \in EdgeParams
    /\ rng \in EntropyStates

NextRun ==
    \/ StartRun
    \/ RunHour
    \/ FinishRun
    \/ Abort
    \/ RequestCancel
    \/ \E p \in EdgeParams : RerunWithFlag(p)

SpecRun == InitRun /\ [][NextRun]_vars

(***************************************************************************)
(* compute_risk_metrics applied to every sample of the bounded input set.  *)
(***************************************************************************)
InitRM ==
    /\ rm_losses \in SeqsUpTo(LossVals, MaxLen)
    /\ rm_alpha \in Alphas
    /\ rm_out = RiskMetrics
    /\ rm_called = FALSE
    /\ ErrIdle
    /\ StressIdle /\ RunIdle /\ SessionFresh /\ ExtIdle
    /\ params = ParamsDefault
    /\ rng = 11

CallRiskMetrics ==
    /\ ~rm_called
    /\ rm_out' = compute_risk_metrics(rm_losses, rm_alpha)
    /\ rm_called' = TRUE
    /\ UNCHANGED <<extVars, rm_losses, rm_alpha, np_errstate, rm_gamma,
                   rm_fallback, stressVars, sessionVars, rng, runVars,
                   first_run>>

NextRM == CallRiskMetrics

SpecRM == InitRM /\ [][NextRM]_vars

(***************************************************************************)
(* compute_risk_metrics called with a risk_aversion of the caller's choice *)
(* under either floating-point error state of numpy.  np.exp(gamma)        *)
(* overflows above 709.78: under "raise" it raises FloatingPointError and  *)
(* the handler of lines 3743-3744 runs, under "warn" it returns inf and    *)
(* the weights and their dot product are nan.                              *)
(***************************************************************************)
ErrStates == {"warn", "raise"}
Gammas == {risk_aversion, 80000}
ErrAlphas == {500, 950}

InitErr ==
    /\ rm_losses \in SeqsUpTo(LossVals, MaxLen)
    /\ rm_alpha \in ErrAlphas
    /\ rm_out = RiskMetrics
    /\ rm_called = FALSE
    /\ np_errstate \in ErrStates
    /\ rm_gamma \in Gammas
    /\ rm_fallback = {}
    /\ StressIdle /\ RunIdle /\ SessionFresh /\ ExtIdle
    /\ params = ParamsDefault
    /\ rng = 11

CallUnderErrstate ==
    /\ ~rm_called
    /\ rm_out' = compute_risk_metrics_errstate(np_errstate, rm_losses, rm_alpha,
                                               rm_gamma)
    /\ rm_fallback' = FallbackTaken(np_errstate, rm_losses, rm_gamma)
    /\ rm_called' = TRUE
    /\ UNCHANGED <<extVars, rm_losses, rm_alpha, np_errstate, rm_gamma,
                   stressVars, sessionVars, rng, runVars, first_run>>

NextErr == CallUnderErrstate

SpecErr == InitErr /\ [][NextErr]_vars

(***************************************************************************)
(* The stress tests applied to a loaded dataset.                           *)
(***************************************************************************)
InitStress ==
    /\ RmIdle /\ StressIdle /\ RunIdle /\ ExtIdle
    /\ data \in {<<d>> : d \in StressDatasets}
    /\ results = <<>> /\ run_flag = FALSE /\ simulation_count = 0
    /\ first_run = <<>>
    /\ params = ParamsDefault
    /\ rng \in EntropyStates

RunStressTest(name) ==
    /\ stress_one' = <<run_stress_test(data[1], name)>>
    /\ stress_one' # stress_one
    /\ UNCHANGED <<extVars, rmVars, stress_all, sessionVars, rng, runVars, first_run>>

RunAllStressTests ==
    /\ stress_all = <<>>
    /\ stress_all' = run_all_stress_tests(data[1])
    /\ UNCHANGED <<extVars, rmVars, stress_one, sessionVars, rng, runVars, first_run>>

NextStress ==
    \/ \E name \in ScenarioNames : RunStressTest(name)
    \/ RunAllStressTests

SpecStress == InitStress /\ [][NextStress]_vars

(***************************************************************************)
(* _analytical_premium_approx applied to a shifted phi.                    *)
(***************************************************************************)
\* results["total"] of a finished run, reduced to the premiums the function
\* reads (EUR/MWh)
ApproxTotals ==
    { [struktur |-> <<10, 3>>, prognose |-> <<1, 2>>, vp_prem |-> <<1, 4>>,
       gesamt |-> <<49, 12>>],
      [struktur |-> <<-5, 1>>, prognose |-> <<2, 1>>, vp_prem |-> <<-1, 2>>,
       gesamt |-> <<-7, 2>>],
      [struktur |-> <<0, 1>>, prognose |-> <<3, 1>>, vp_prem |-> <<12, 5>>,
       gesamt |-> <<27, 5>>] }
\* phi of the sidebar (hundredths) and the shifted values passed in
PhiOldValues == {0, 50, 80, 95, 99}
PhiNewValues ==
    {<<0, 1>>, <<3, 10>>, <<1, 2>>, <<39, 50>>, <<41, 50>>, <<97, 100>>,
     <<499, 500>>}

InitApprox ==
    /\ ap_args \in {<<[params |-> [ParamsDefault EXCEPT !.phi = o],
                       results |-> [total |-> b],
                       param_name |-> "phi", new_value |-> v]>> :
                        o \in PhiOldValues, b \in ApproxTotals,
                        v \in PhiNewValues}
    /\ ap_out = <<>> /\ sens = <<>>
    /\ ConvIdle /\ CtlIdle
    /\ RmIdle /\ StressIdle /\ RunIdle /\ SessionFresh
    /\ params = ParamsDefault
    /\ rng = 11

CallApprox ==
    /\ ap_out = <<>>
    /\ ap_out' = <<_analytical_premium_approx(ap_args[1].params,
                                             ap_args[1].results,
                                             ap_args[1].param_name,
                                             ap_args[1].new_value)>>
    /\ UNCHANGED <<sens, ap_args, convVars, ctlVars, rmVars, stressVars,
                   sessionVars, rng, runVars, first_run>>

NextApprox == CallApprox

SpecApprox == InitApprox /\ [][NextApprox]_vars

(***************************************************************************)
(* _analytical_premium_approx in floating point.  The premiums of            *)
(* results["total"] are binary floating-point numbers with a significand of *)
(* MantBits bits (float64 has 53) and every operation on them rounds to     *)
(* nearest, ties to even; the factors derived from the parameters are kept  *)
(* exact.                                                                  *)
(***************************************************************************)
MantBits == 3
Pow2R(e) == IF e >= 0 THEN RInt(2 ^ e) ELSE RNorm(1, 2 ^ (-e))
\* the exponent e of a positive r: 2^(MantBits-1) <= r / 2^e < 2^MantBits
RECURSIVE FlExp(_)
FlExp(r) ==
    IF RLe(RInt(2 ^ MantBits), r) THEN FlExp(RMul(r, RNorm(1, 2))) + 1
    ELSE IF RLt(r, RInt(2 ^ (MantBits - 1))) THEN FlExp(RMul(r, RInt(2))) - 1
    ELSE 0
\* the integer nearest to a positive q, ties to even
RoundHalfEven(q) ==
    LET m == q[1] \div q[2]
        rem2 == 2 * (q[1] - m * q[2])
    IN  IF rem2 > q[2] \/ (rem2 = q[2] /\ m % 2 = 1) THEN m + 1 ELSE m
\* the floating-point number nearest to r
Fl(r) ==
    IF ~IsFinite(r) \/ r[1] = 0 THEN r
    ELSE LET a == RAbs(r)
             e == FlExp(a)
             v == RMul(RInt(RoundHalfEven(RMul(a, Pow2R(-e)))), Pow2R(e))
         IN  IF r[1] < 0 THEN RSub(RZero, v) ELSE v
FlAdd(a, b) == Fl(FAdd(a, b))
FlSub(a, b) == Fl(FSub(a, b))
FlMul(a, b) == Fl(FMul(a, b))

\* scipy.stats.norm.ppf at the levels of the selectbox (line 7082) and at
\* 0.5 and 0.999, to four decimals
NormPpf(a) ==
    CASE a = RNorm(900, 1000) -> RNorm(12816, 10000)
      [] a = RNorm(950, 1000) -> RNorm(16449, 10000)
      [] a = RNorm(975, 1000) -> RNorm(19600, 10000)
      [] a = RNorm(990, 1000) -> RNorm(23263, 10000)
      [] a = RNorm(999, 1000) -> RNorm(30902, 10000)
      [] a = RNorm(500, 1000) -> RZero

\* params.get(param_name, 0), line 4360
ParamOrig(p, name) ==
    IF name = "confidence" THEN RNorm(p.confidence, 1000)
    ELSE ParamValue(p, name)

\* lines 4399-4402: the factor of the kappa branch before min(3.0, .)
KappaRatio_cutoff_one(orig, new_value) ==
    IF RLt(RInt(1), new_value) THEN SqrtRat(RDiv(orig, new_value)) ELSE RInt(3)
KappaRatio(orig, new_value) ==
    IF RLt(RNorm(1, 1000), new_value) THEN SqrtRat(RDiv(orig, new_value))
    ELSE RInt(3)

\* struktur + prognose * f + vp_prem * g, evaluated left to right
ScaledPremiumFl(base, f, g) ==
    FlAdd(FlAdd(base.struktur, FlMul(base.prognose, f)), FlMul(base.vp_prem, g))

\* lines 4340-4458, all ten parameter names
_analytical_premium_approx_float(p, res, param_name, new_value) ==
    LET base == res.total
        orig == ParamOrig(p, param_name)
        one == RInt(1)
        risk == FlAdd(base.prognose, base.vp_prem)
    IN  CASE param_name = "base_price" ->
                FlSub(base.gesamt, RSub(new_value, orig))
          [] param_name = "vol_error" ->
                LET ratio == IF orig[1] > 0 THEN RDiv(new_value, orig) ELSE one
                IN  ScaledPremiumFl(base, ratio, ratio)
          [] param_name = "correlation" ->
                LET orig_frac == RMul(orig, RNorm(1, 100))
                    new_frac == RMul(new_value, RNorm(1, 100))
                    vp_ratio ==
                        IF RLt(RNorm(1, 100), RAbs(orig_frac))
                        THEN RAdd(RNorm(4, 10),
                                  RMul(RNorm(6, 10), RDiv(new_frac, orig_frac)))
                        ELSE RAdd(one, RMul(RInt(2), RSub(new_frac, orig_frac)))
                IN  FlAdd(FlAdd(base.struktur, base.prognose),
                          FlMul(base.vp_prem, RMax(RNorm(1, 10), vp_ratio)))
          [] param_name = "sigma_price" ->
                LET ratio == IF orig[1] > 0 THEN RDiv(new_value, orig) ELSE one
                IN  ScaledPremiumFl(base, SqrtRat(ratio), SqrtRat(ratio))
          [] param_name = "kappa" ->
                LET ratio == KappaRatio(orig, new_value)
                IN  ScaledPremiumFl(base, RMin(RInt(3), ratio),
                                    RMin(RInt(3), ratio))
          [] param_name = "phi" ->
                ScaledPremiumFl(base, PhiRatio(orig, new_value),
                                PhiRatio(orig, new_value))
          [] param_name = "jump_prob" ->
                LET ratio == IF RLt(RNorm(1, 1000), orig)
                             THEN RDiv(new_value, orig) ELSE one
                    tail_factor == RMul(RNorm(3, 10), RSub(ratio, one))
                IN  FlAdd(base.struktur, FlMul(risk, RAdd(one, tail_factor)))
          [] param_name = "jump_size" ->
                LET ratio == IF RLt(one, orig) THEN RDiv(new_value, orig) ELSE one
                    tail_factor == RMul(RNorm(2, 10), RSub(ratio, one))
                IN  FlAdd(base.struktur, FlMul(risk, RAdd(one, tail_factor)))
          [] param_name = "cost_of_capital" ->
                LET old_r == RMul(orig, RNorm(1, 100))
                    new_r == RMul(new_value, RNorm(1, 100))
                IN  IF RLt(RNorm(1, 1000), old_r)
                    THEN FlAdd(base.struktur,
                               FlMul(risk, RAdd(RNorm(55, 100),
                                                RMul(RNorm(45, 100),
                                                     RDiv(new_r, old_r)))))
                    ELSE base.gesamt
          [] param_name = "confidence" ->
                LET old_z == NormPpf(orig)
                    new_z == IF RLt(new_value, RNorm(999, 1000))
                             THEN NormPpf(new_value) ELSE RNorm(31, 10)
                    ratio == IF RLt(RNorm(1, 10), old_z)
                             THEN RDiv(new_z, old_z) ELSE one
                    el_part == FlMul(risk, RNorm(1, 2))
                    ul_part == FlMul(risk, RNorm(1, 2))
                IN  FlAdd(FlAdd(base.struktur, el_part), FlMul(ul_part, ratio))
          [] OTHER -> base.gesamt

\* the parameter names the function has a branch for
ApproxNames ==
    {"base_price", "vol_error", "correlation", "sigma_price", "kappa", "phi",
     "jump_prob", "jump_size", "cost_of_capital", "confidence"}
\* premiums (EUR/MWh) with a significand of MantBits bits
FloatPremiums == {Fl(RNorm(k, 4)) : k \in {1, 2, 6, 12, 20, 48}}
FloatStruktur == FloatPremiums \cup {RInt(-3), RZero}
\* lines 4090-4093: struktur, prognose, vp_prem and their sum gesamt
FloatTotals ==
    { [struktur |-> s, prognose |-> g, vp_prem |-> v,
       gesamt |-> FlAdd(FlAdd(s, g), v)] :
          s \in FloatStruktur, g \in FloatPremiums, v \in FloatPremiums }
\* sidebar states: the defaults, and other values inside the slider ranges
FloatParams ==
    { ParamsDefault,
      [ParamsDefault EXCEPT !.correlation = -20, !.kappa = 50, !.phi = 99,
                            !.confidence = 990, !.cost_of_capital = 35,
                            !.jump_prob = 3, !.jump_size = 30000] }
\* the value passed in: the unchanged one, or a shifted one
NewValues(p, name) ==
    {ParamOrig(p, name)} \cup
    (IF name = "confidence" THEN {RNorm(975, 1000), RNorm(999, 1000)}
     ELSE IF name = "phi" THEN {RNorm(95, 100)}
     ELSE {RMul(ParamOrig(p, name), RNorm(3, 2))})

InitFloat ==
    /\ ap_args \in {<<[params |-> p, results |-> [total |-> b],
                       param_name |-> nm, new_value |-> ParamOrig(p, nm)]>> :
                        p \in FloatParams, b \in FloatTotals, nm \in ApproxNames}
    /\ ap_out = <<>> /\ sens = <<>>
    /\ ConvIdle /\ CtlIdle
    /\ RmIdle /\ StressIdle /\ RunIdle /\ SessionFresh
    /\ params = ParamsDefault
    /\ rng = 11

\* one evaluation, at the unchanged value or at a shifted one
CallApproxFloat(v) ==
    /\ ap_out = <<>>
    /\ ap_args' = <<[ap_args[1] EXCEPT !.new_value = v]>>
    /\ ap_out' = <<_analytical_premium_approx_float(ap_args[1].params,
                                                   ap_args[1].results,
                                                   ap_args[1].param_name, v)>>
    /\ UNCHANGED <<sens, convVars, ctlVars, rmVars, stressVars,
                   sessionVars, rng, runVars, first_run>>

NextFloat ==
    \E v \in NewValues(ap_args[1].params, ap_args[1].param_name) :
        CallApproxFloat(v)

SpecFloat == InitFloat /\ [][NextFloat]_vars

(***************************************************************************)
(* The location measures of compute_risk_metrics in floating point: the    *)
(* losses are floating-point numbers with a significand of MantBits bits   *)
(* and np.mean adds them one after the other, rounding every sum and the   *)
(* final division.                                                         *)
(***************************************************************************)
FlDiv(a, b) == Fl(FDiv(a, b))
RECURSIVE FlSum(_)
FlSum(s) ==
    IF s = <<>> THEN RZero
    ELSE FlAdd(FlSum(SubSeq(s, 1, Len(s) - 1)), RInt(s[Len(s)]))
\* np.mean and ndarray.mean of a non-empty array (lines 3706, 3721)
np_mean_float(s) == FlDiv(FlSum(s), RInt(Len(s)))
\* line 3720: tail = s[idx_var:]
TailSlice_head(s, idx_var) == SubSeq(s, 1, idx_var + 1)
TailSlice(s, idx_var) == SubSeq(s, idx_var + 1, Len(s))
\* lines 3697-3724
risk_metrics_float(losses, alphaNum) ==
    LET n == Len(losses)
    IN  IF n = 0 THEN RiskMetrics
        ELSE LET s == np_sort(losses)
                 el == np_mean_float(losses)
                 idx_var == VarIndex(alphaNum, n)
                 var == RInt(s[idx_var + 1])
                 tail == TailSlice(s, idx_var)
                 cvar == IF Len(tail) > 0 THEN np_mean_float(tail) ELSE var
                 ul == RMax(RZero, FlSub(cvar, el))
             IN  [RiskMetrics EXCEPT !.EL = el, !.VaR = var, !.CVaR = cvar,
                                     !.UL = ul, !.sorted = s]

\* losses that are floating-point numbers of MantBits bits
FloatLossVals == {v \in {-2, 0, 3, 5, 6, 7} : Fl(RInt(v)) = RInt(v)}

InitMean ==
    /\ rm_losses \in SeqsUpTo(FloatLossVals, MaxLen)
    /\ rm_alpha \in Alphas
    /\ rm_out = RiskMetrics /\ rm_called = FALSE
    /\ ErrIdle
    /\ StressIdle /\ RunIdle /\ SessionFresh /\ ExtIdle
    /\ params = ParamsDefault
    /\ rng = 11

CallMeanFloat ==
    /\ ~rm_called
    /\ rm_out' = risk_metrics_float(rm_losses, rm_alpha)
    /\ rm_called' = TRUE
    /\ UNCHANGED <<extVars, rm_losses, rm_alpha, np_errstate, rm_gamma,
                   rm_fallback, stressVars, sessionVars, rng, runVars,
                   first_run>>

NextMean == CallMeanFloat

SpecMean == InitMean /\ [][NextMean]_vars

(***************************************************************************)
(* The dataset builders: SmartDataParser.convert_to_portfolio_data (lines  *)
(* 1436-1547) and generate_synthetic_data (lines 1956-2064), as far as     *)
(* they build dates, year_map and years.  A timestamp is an hour ordinal;  *)
(* NaT is a missing timestamp.                                             *)
(***************************************************************************)
NaT == -1
\* calendar year of the hour ordinals 0..5 of an imported table; no row can
\* fall into 2028
StampYear == <<2026, 2026, 2027, 2027, 2029, 2029>>
Stamps == {NaT} \cup {k - 1 : k \in DOMAIN StampYear}

\* df.sort_values(dt_col): ascending, missing timestamps last (line 1460)
sort_values(rows) ==
    np_sort(SelectSeq(rows, LAMBDA x : x # NaT))
        \o SelectSeq(rows, LAMBDA x : x = NaT)
\* df.dropna(subset=[dt_col]) (line 1463)
dropna(rows) == SelectSeq(rows, LAMBDA x : x # NaT)
\* df.drop_duplicates(subset=[dt_col], keep="first") (line 1465)
RECURSIVE drop_duplicates(_)
drop_duplicates(rows) ==
    IF rows = <<>> THEN <<>>
    ELSE LET rest == drop_duplicates(SubSeq(rows, 1, Len(rows) - 1))
             x == rows[Len(rows)]
         IN  IF \E i \in 1..(Len(rows) - 1) : rows[i] = x THEN rest
             ELSE Append(rest, x)

\* the index given to an hour of calendar year y (lines 1482-1487 and
\* 2008-2015)
NextYearIndex_always(yidx, y, last_y) == yidx + 1
NextYearIndex(yidx, y, last_y) == IF y # last_y THEN yidx + 1 ELSE yidx

\* the loop of lines 1478-1487 and of lines 2003-2019 over the calendar
\* years of the hours, from hour i on
RECURSIVE BuildYearMap(_, _, _, _, _, _)
BuildYearMap(ys, i, last_y, yidx, years_found, year_map) ==
    IF i > Len(ys) THEN [years |-> years_found, year_map |-> year_map]
    ELSE LET y == ys[i]
             nidx == NextYearIndex(yidx, y, last_y)
         IN  BuildYearMap(ys, i + 1, y, nidx,
                          IF y # last_y THEN Append(years_found, y)
                          ELSE years_found,
                          Append(year_map, nidx))

NoDataset == [ok |-> FALSE, dates |-> <<>>, year_map |-> <<>>, years |-> <<>>,
              n_hours |-> 0]

\* lines 1459-1487 and 1527-1538; dates[0] of an empty table raises
convert_to_portfolio_data(rows) ==
    LET dates == drop_duplicates(dropna(sort_values(rows)))
        built == BuildYearMap([i \in DOMAIN dates |-> StampYear[dates[i] + 1]],
                              1, -1, -1, <<>>, <<>>)
    IN  IF dates = <<>> THEN NoDataset
        ELSE [ok |-> TRUE, dates |-> dates, year_map |-> built.year_map,
              years |-> built.years, n_hours |-> Len(dates)]

\* lines 1996-2022 and 2045-2055, for a calendar of YearHours hours a year
generate_synthetic_data(start_year, n_years) ==
    LET n == n_years * YearHours
        dates == [i \in 1..n |-> start_year * YearHours + (i - 1)]
        built == BuildYearMap([i \in 1..n |-> dates[i] \div YearHours],
                              1, -1, -1, <<>>, <<>>)
    IN  [ok |-> TRUE, dates |-> dates, year_map |-> built.year_map,
         years |-> built.years, n_hours |-> Len(dates)]

StartYears == {2024, 2026}
YearCounts == 1..3

InitData ==
    /\ cv_in \in
          {<<[kind |-> "import", rows |-> r, start_year |-> 0, n_years |-> 0]>> :
               r \in SeqsUpTo(Stamps, MaxRows)}
          \cup
          {<<[kind |-> "synthetic", rows |-> <<>>, start_year |-> s,
              n_years |-> k]>> : s \in StartYears, k \in YearCounts}
    /\ cv_out = <<>>
    /\ SensIdle /\ CtlIdle
    /\ RmIdle /\ StressIdle /\ RunIdle /\ SessionFresh
    /\ params = ParamsDefault
    /\ rng = 11

ConvertRows ==
    /\ cv_out = <<>>
    /\ cv_in[1].kind = "import"
    /\ cv_out' = <<convert_to_portfolio_data(cv_in[1].rows)>>
    /\ UNCHANGED <<cv_in, sensVars, ctlVars, rmVars, stressVars, sessionVars,
                   rng, runVars, first_run>>

GenerateYears ==
    /\ cv_out = <<>>
    /\ cv_in[1].kind = "synthetic"
    /\ cv_out' = <<generate_synthetic_data(cv_in[1].start_year,
                                           cv_in[1].n_years)>>
    /\ UNCHANGED <<cv_in, sensVars, ctlVars, rmVars, stressVars, sessionVars,
                   rng, runVars, first_run>>

NextData == ConvertRows \/ GenerateYears

SpecData == InitData /\ [][NextData]_vars

(***************************************************************************)
(* Two sessions of one server process.  Each session runs main() in its    *)
(* own thread; np.random is a module-level generator of the process, so    *)
(* the run of the other session seeds it (line 6623) and draws from it     *)
(* (lines 3962-4008) between the hours of this session's run.  Of the      *)
(* other session only its effect on the generator is kept.                 *)
(***************************************************************************)
OtherSeeds == {42, 7}
OtherPaths == {1, 2}

InitConc ==
    /\ RmIdle /\ StressIdle /\ RunIdle /\ ExtIdle
    /\ data \in {<<DataOneYear>>, <<DataTwoYears>>}
    /\ results = <<>> /\ run_flag = FALSE /\ simulation_count = 0
    /\ first_run = <<>>
    /\ params = ParamsDefault
    /\ rng \in EntropyStates

\* the other session starts a run: np.random.seed of line 6623
OtherSessionSeed(seed) ==
    /\ pc = "loop"
    /\ interfered = FALSE
    /\ rng' = np_random_seed(seed)
    /\ interfered' = TRUE
    /\ UNCHANGED <<sensVars, convVars, cancel_requested, rmVars, stressVars,
                   sessionVars, runVars, first_run>>

\* the other session's run processes one hour with N paths: the five draws
\* of lines 3962-4008
OtherSessionHour(N) ==
    /\ pc = "loop"
    /\ interfered = FALSE
    /\ rng' = RngAt(rng, DrawsPerHour(N))
    /\ interfered' = TRUE
    /\ UNCHANGED <<sensVars, convVars, cancel_requested, rmVars, stressVars,
                   sessionVars, runVars, first_run>>

NextConc ==
    \/ StartRun
    \/ RunHour
    \/ FinishRun
    \/ \E seed \in OtherSeeds : OtherSessionSeed(seed)
    \/ \E N \in OtherPaths : OtherSessionHour(N)

SpecConc == InitConc /\ [][NextConc]_vars

(***************************************************************************)
(* Runs whose size exceeds the diagnostic buffers: a dataset one hour      *)
(* longer than the buffer with a single path, and a short dataset with one *)
(* path more than the buffer holds.                                        *)
(***************************************************************************)
\* one year and one hour, constant load and price
DataYearPlus ==
    [name |-> "year-plus", n_hours |-> MaxDiagHours + 1,
     load |-> [h \in 1..(MaxDiagHours + 1) |-> 10],
     hpfc |-> [h \in 1..(MaxDiagHours + 1) |-> 2000],
     year_map |-> [h \in 1..(MaxDiagHours + 1) |-> 0], years |-> <<2026>>,
     dates |-> [h \in 1..(MaxDiagHours + 1) |->
                   [month |-> 1 + (((h - 1) \div 744) % 12), hour |-> (h - 1) % 24]]]
ParamsOnePath == [ParamsDefault EXCEPT !.paths = 1, !.garch_enabled = FALSE]
ParamsManyPaths == [ParamsDefault EXCEPT !.paths = MaxDiagPaths + 1]

InitLarge ==
    /\ RmIdle /\ StressIdle /\ RunIdle /\ ExtIdle
    \* the long dataset is loaded in a session that has one run left
    /\ \/ /\ data = <<DataYearPlus>> /\ params = ParamsOnePath
          /\ simulation_count = MaxRuns - 1
       \/ /\ data = <<DataTwoYears>> /\ params = ParamsManyPaths
          /\ simulation_count = 0
    /\ results = <<>> /\ run_flag = FALSE
    /\ first_run = <<>>
    /\ rng = 11

NextLarge ==
    \/ StartRun
    \/ RunHour
    \/ FinishRun

SpecLarge == InitLarge /\ [][NextLarge]_vars

(***************************************************************************)
(* Runs that differ in the volume-error standard deviation only: the user  *)
(* moves the sigma_V slider (line 7087) between two runs on one dataset    *)
(* with one seed.                                                          *)
(***************************************************************************)
VolErrors == {2, 8, 10, 25}
VolBase == {ParamsDefault, [ParamsDefault EXCEPT !.paths = 3, !.seed = 7]}
VolParams == {[b EXCEPT !.vol_error = v] : b \in VolBase, v \in VolErrors}
\* an imported series of two years that feeds in more than it draws: the
\* second year has a negative volume and so has the whole horizon
DataNetNegative ==
    [DataTwoYears EXCEPT !.name = "net-negative", !.load = <<15, 10, -40>>]
VolDatasets == {DataOneYear, DataTwoYears, DataNetZeroYear, DataNetNegative}

InitVol ==
    /\ RmIdle /\ StressIdle /\ RunIdle /\ ExtIdle
    /\ \E d \in VolDatasets : data = <<d>>
    /\ results = <<>> /\ run_flag = FALSE /\ simulation_count = 0
    /\ first_run = <<>>
    /\ params \in VolParams
    /\ rng \in EntropyStates

NextVol ==
    \/ \E p \in VolParams : SetParams(p)
    \/ StartRun
    \/ RunHour
    \/ FinishRun

SpecVol == InitVol /\ [][NextVol]_vars

(***************************************************************************)
(* Runs that drive the spot price and the conditional variance against     *)
(* their bands: a forward curve far outside [-200, 3000] EUR/MWh, the      *)
(* fastest mean reversion, the largest sigma_S, jumps and GARCH weights    *)
(* of the sliders.                                                         *)
(***************************************************************************)
\* three hours of one year: 4000, -5000 and 80 EUR/MWh
DataSpike ==
    [name |-> "spike", n_hours |-> 3, load |-> <<10, 10, 10>>,
     hpfc |-> <<400000, -500000, 8000>>, year_map |-> <<0, 0, 0>>,
     years |-> <<2026>>,
     dates |-> <<[month |-> 1, hour |-> 17], [month |-> 1, hour |-> 18],
                 [month |-> 1, hour |-> 19]>>]
BandDatasets == {DataSpike, DataTwoYears}
BandSeeds == {42, 7, 1}
BandBase ==
    { [ParamsDefault EXCEPT !.kappa = 50],
      [ParamsDefault EXCEPT !.kappa = 50, !.garch_enabled = FALSE],
      [ParamsDefault EXCEPT !.sigma_price = 5000, !.garch_omega = 2000,
                            !.garch_alpha = 20, !.garch_beta = 97,
                            !.jump_prob = 15, !.jump_size = 30000] }
BandParams == {[b EXCEPT !.seed = sd] : b \in BandBase, sd \in BandSeeds}

InitBand ==
    /\ RmIdle /\ StressIdle /\ RunIdle /\ ExtIdle
    /\ \E d \in BandDatasets : data = <<d>>
    /\ results = <<>> /\ run_flag = FALSE /\ simulation_count = 0
    /\ first_run = <<>>
    /\ params \in BandParams
    /\ rng \in EntropyStates

NextBand ==
    \/ StartRun
    \/ RunHour
    \/ FinishRun

SpecBand == InitBand /\ [][NextBand]_vars

(***************************************************************************)
(* Properties.                                                             *)
(***************************************************************************)
OpenUnit(a) == 0 < a /\ a < AlphaDen
\* the VaR index as the specification states it: floor(alpha * n), clipped
StatedIndex(a, n) ==
    LET f == (a * n) \div AlphaDen IN IF f > n - 1 THEN n - 1 ELSE f
IsAscending(s) == \A i \in 1..(Len(s) - 1) : s[i] <= s[i + 1]
Count(s, x) == Cardinality({i \in DOMAIN s : s[i] = x})
IsSortedSample(s, losses) ==
    /\ Len(s) = Len(losses)
    /\ IsAscending(s)
    /\ \A i \in DOMAIN losses : Count(s, losses[i]) = Count(losses, losses[i])
TailSum(s, idx) == SeqSum([i \in 1..(Len(s) - idx) |-> s[idx + i]])

\* C1: during a run and in its published result every entry of the
\* imbalance-loss matrix is >= 0, whatever the sign of delta_q and
\* whatever is drawn
C1_ImbalanceNonNegative ==
    /\ \A i \in DOMAIN imb : \A y \in DOMAIN imb[i] : imb[i][y] >= 0
    /\ \A k \in DOMAIN results :
          \A i \in DOMAIN results[k].raw.imb_y :
             \A y \in DOMAIN results[k].raw.imb_y[i] :
                results[k].raw.imb_y[i][y] >= 0
\* a path that is long (delta_q < 0) has paid a positive imbalance cost and
\* has a negative volume-price loss while another entry is positive
C1_Witness ==
    /\ pc = "loop" /\ t >= 1
    /\ \E i \in DOMAIN imb : \E y \in DOMAIN imb[i] :
          delta_q[i] < 0 /\ imb[i][y] > 0 /\ vp[i][y] < 0
    /\ \E i \in DOMAIN vp : \E y \in DOMAIN vp[i] : vp[i][y] > 0

C3_VaRIndexAndTailMean ==
    (rm_called /\ Len(rm_losses) >= 1) =>
        LET n == Len(rm_losses)
            idx == StatedIndex(rm_alpha, n)
        IN  /\ IsSortedSample(rm_out.sorted, rm_losses)
            /\ rm_out.VaR = <<rm_out.sorted[idx + 1], 1>>
            /\ rm_out.CVaR[1] * (n - idx) = TailSum(rm_out.sorted, idx) * rm_out.CVaR[2]
\* an unsorted sample whose VaR index is strictly inside the sample
C3_Witness ==
    /\ rm_called /\ Len(rm_losses) >= 3
    /\ ~IsAscending(rm_losses)
    /\ StatedIndex(rm_alpha, Len(rm_losses)) \in 1..(Len(rm_losses) - 2)
    /\ rm_out.CVaR # rm_out.VaR

\* C4: the unexpected loss equals max(0, CVaR - EL) and is >= 0
C4_UnexpectedLoss ==
    rm_called =>
        LET diff == RSub(rm_out.CVaR, rm_out.EL)
        IN  /\ rm_out.UL = (IF diff[1] > 0 THEN diff ELSE <<0, 1>>)
            /\ rm_out.UL[1] >= 0 /\ rm_out.UL[2] > 0
\* a sample whose tail mean lies above its mean
C4_Witness == rm_called /\ rm_out.UL[1] > 0 /\ rm_out.EL[1] < 0

\* C5: a run started with the seed, parameters and dataset of an earlier
\* run ends with the same imbalance and volume-price arrays, whatever
\* happened to the generator in between
C5_Reproducible ==
    (/\ pc = "loop" /\ t = data[1].n_hours
     /\ first_run # <<>>
     /\ first_run[1].data = data[1] /\ first_run[1].params = params)
    => (imb = first_run[1].imb_y /\ vp = first_run[1].vp_y)
\* a second run with the inputs of the first has finished its hours
C5_Witness ==
    /\ pc = "loop" /\ t = data[1].n_hours
    /\ first_run # <<>>
    /\ first_run[1].data = data[1] /\ first_run[1].params = params
    /\ simulation_count >= 1
    /\ \E i \in DOMAIN imb : \E y \in DOMAIN imb[i] : imb[i][y] > 0

\* the configuration errors C6 names
ValidConfig(p, d) ==
    /\ ~(p.garch_enabled /\ p.garch_alpha + p.garch_beta >= FP)
    /\ p.paths > 0
    /\ p.phi < FP
    /\ \A y \in YearsOf(d) : vol_y(d)[y] > 0
\* C6 as stated: no hour of the loop executes for an invalid configuration
C6_InvalidConfigRejected ==
    (pc = "loop" /\ t >= 1) => ValidConfig(params, data[1])

\* C7: for a sample of exactly one element x and a confidence level in
\* (0,1): VaR = CVaR = EL = x and UL = 0
C7_SingleSample ==
    (rm_called /\ Len(rm_losses) = 1 /\ OpenUnit(rm_alpha)) =>
        /\ rm_out.VaR = <<rm_losses[1], 1>>
        /\ rm_out.CVaR = <<rm_losses[1], 1>>
        /\ rm_out.EL = <<rm_losses[1], 1>>
        /\ rm_out.UL = <<0, 1>>
C7_Witness ==
    rm_called /\ Len(rm_losses) = 1 /\ OpenUnit(rm_alpha) /\ rm_losses[1] # 0

\* C8: for the empty sample every numeric measure is zero and n is 0
C8_EmptySample ==
    (rm_called /\ rm_losses = <<>>) =>
        /\ \A f \in {"EL", "VaR", "CVaR", "UL", "min_val", "max_val", "p01",
                     "p05", "p10", "p25", "median", "p75", "p90", "p95",
                     "p99", "iqr"} : rm_out[f] = <<0, 1>>
        /\ \A f \in {"std", "skew", "kurtosis", "spectral", "entropic", "n"} :
              rm_out[f] = 0
        /\ rm_out.sorted = <<>>
C8_Witness == rm_called /\ rm_losses = <<>>

\* what section 4.3 states about one stress result r on dataset d; the
\* fraction of the horizon is given as a parameter
StressIdentities(r, d, fraction) ==
    LET sc == Scenario(r.name)
        total_volume == RNorm(SeqSum(d.load), FP)
        avg_load == RNorm(SeqSum(d.load), FP * d.n_hours)
        shock == RMul(avg_load, RNorm(sc.vol_shock, 100))
    IN  /\ r.vp_loss = RMul(RMul(shock, <<sc.price_shock, 1>>),
                            <<sc.duration_hours, 1>>)
        /\ r.imb_loss = RMul(RMul(RAbs(shock), <<40, 1>>),
                             <<sc.duration_hours, 1>>)
        /\ r.struct_impact =
              RMul(RMul(RMul(<<sc.price_shock, 1>>, total_volume), fraction),
                   RNorm(7, 10))
        /\ r.total = RAdd(RAdd(r.vp_loss, r.imb_loss), r.struct_impact)
C10_StressIndependentAndRanked ==
    /\ [](stress_all # <<>> =>
            /\ Len(stress_all) = Cardinality(ScenarioNames)
            /\ {stress_all[i].name : i \in DOMAIN stress_all} = ScenarioNames
            /\ \A i \in 1..(Len(stress_all) - 1) :
                  RLe(RAbs(stress_all[i + 1].total), RAbs(stress_all[i].total))
            /\ \A k \in DOMAIN stress_one :
                  \E i \in DOMAIN stress_all : stress_all[i] = stress_one[k])
    /\ [][(stress_one' # stress_one \/ stress_all' # stress_all)
             => (data' = data /\ rng' = rng)]_vars
\* all scenarios and one scenario alone were evaluated, and the ranking is
\* not the order of the table
C10_Witness ==
    /\ stress_all # <<>> /\ stress_one # <<>>
    /\ \E i \in DOMAIN stress_all : stress_all[i].name # STRESS_SCENARIOS[i].name
    /\ stress_all[1].total # <<0, 1>>

\* C11 as stated: every row of the sensitivity table reports
\* (pi(theta + Delta) - pi(theta - Delta)) / (2 Delta), with pi the
\* approximated premium at exactly theta + Delta and theta - Delta
C11_CentralDifference ==
    \A k \in DOMAIN sens :
        results # <<>> =>
            LET r == sens[k]
                up == _analytical_premium_approx(params, results[1], r.parameter,
                                                 RAdd(r.base, r.delta))
                dn == _analytical_premium_approx(params, results[1], r.parameter,
                                                 RSub(r.base, r.delta))
            IN  r.sensitivity = FDiv(FSub(up, dn), RMul(RInt(2), r.delta))

\* the ratio of the effective AR(1) variances of the harness input,
\* [1 / (1 - new^2)] / [1 / (1 - old^2)]
VarianceRatio(a) ==
    LET old == RNorm(a.params.phi, FP)
    IN  RDiv(RSub(RInt(1), RMul(old, old)),
             RSub(RInt(1), RMul(a.new_value, a.new_value)))
\* the factor f with out = struktur + (prognose + vp_prem) * f
AppliedFactor(a, out) ==
    LET b == a.results.total
    IN  RDiv(RSub(out, b.struktur), RAdd(b.prognose, b.vp_prem))

C13_YearIndexContiguous ==
    \A k \in DOMAIN cv_out :
        cv_out[k].ok =>
            LET d == cv_out[k]
                Y == Len(d.years)
            IN  /\ d.n_hours >= 1
                /\ Len(d.year_map) = d.n_hours
                /\ Len(d.dates) = d.n_hours
                /\ d.year_map[1] = 0
                /\ \A h \in 1..(d.n_hours - 1) :
                      d.year_map[h + 1] - d.year_map[h] \in {0, 1}
                /\ {d.year_map[h] : h \in 1..d.n_hours} = 0..(Y - 1)
\* an imported table given out of order, with a repeated and a missing
\* timestamp and a calendar year without rows, built into three years
C13_Witness ==
    /\ cv_out # <<>> /\ cv_out[1].ok
    /\ cv_in[1].kind = "import"
    /\ cv_in[1].rows # sort_values(cv_in[1].rows)
    /\ Len(cv_out[1].dates) < Len(cv_in[1].rows)
    /\ cv_out[1].years = <<2026, 2029>>
    /\ cv_out[1].year_map[cv_out[1].n_hours] = 1

\* one hour of the loop has just been processed
HourStep == pc = "loop" /\ pc' = "loop" /\ t' = t + 1
\* both loss matrices are zero when the hour loop starts
ZeroAtStart ==
    (pc = "loop" /\ t = 0) =>
        \A i \in DOMAIN imb : \A y \in DOMAIN imb[i] :
            imb[i][y] = 0 /\ vp[i][y] = 0

\* C14 as stated: both matrices start at zero and no entry of either matrix
\* ever decreases from one hour to the next
C14_Original ==
    /\ []ZeroAtStart
    /\ [][HourStep =>
            \A i \in DOMAIN imb : \A y \in DOMAIN imb[i] :
                imb'[i][y] >= imb[i][y] /\ vp'[i][y] >= vp[i][y]]_vars
\* C14 amended: both matrices start at zero; an hour changes only the column
\* of its own year; no entry of the imbalance matrix ever decreases; the
\* volume-price matrix is accumulated hour by hour and its entries may
\* decrease
C14_AccumulatedHourByHour ==
    /\ []ZeroAtStart
    /\ [][HourStep =>
            \A i \in DOMAIN imb : \A y \in DOMAIN imb[i] :
                /\ imb'[i][y] >= imb[i][y]
                /\ y # data[1].year_map[t + 1] + 1 =>
                      (imb'[i][y] = imb[i][y] /\ vp'[i][y] = vp[i][y])]_vars
\* in the second year of a run an entry of the volume-price matrix has gone
\* below zero while the imbalance entry of the same path and year has grown
C14_Witness ==
    /\ pc = "loop" /\ t = data[1].n_hours
    /\ Len(data[1].years) = 2
    /\ \E i \in DOMAIN vp : vp[i][2] < 0 /\ imb[i][2] > 0 /\ imb[i][1] > 0

\* C15: a run that aborts inside the hour loop returns and stores nothing:
\* the stored results change only when a run that has processed all T hours
\* publishes the result of its complete matrices, or when a new dataset
\* clears them; while a run is in its loop no step of any other component is
\* taken, so none reads the matrices
C15_NoPartialResult ==
    /\ [][results' # results =>
            \/ /\ pc = "loop" /\ t = data[1].n_hours
               /\ results' = <<PostProcess(data[1], params, imb, vp,
                                           spot_samples, vol_error_samples)>>
            \/ /\ pc = "idle" /\ results' = <<>>]_vars
    /\ [][pc = "loop" =>
            /\ sens' = sens \/ pc' = "idle"
            /\ data' = data /\ params' = params
            /\ UNCHANGED <<stress_one, stress_all, rm_out>>]_vars
\* a second run was aborted after its first hour: the session still holds
\* the results of the first run and the start flag is still set
C15_Witness ==
    /\ pc = "idle" /\ run_flag = TRUE
    /\ simulation_count = 1
    /\ results # <<>>
    /\ imb = <<>>

\* C16 as stated: a run whose hours interleave with the steps of another
\* session's run ends with the loss arrays of the same run made alone
\* (same seed, parameters and dataset)
C16_StreamNotShared ==
    (/\ pc = "loop" /\ t = data[1].n_hours
     /\ first_run # <<>> /\ first_run[1].alone
     /\ first_run[1].data = data[1] /\ first_run[1].params = params)
    => (imb = first_run[1].imb_y /\ vp = first_run[1].vp_y)

\* C17 as stated: once a cancellation has been requested the run processes
\* no further hour and stores no partial result
C17_StopsWhenCancelled ==
    [][(pc = "loop" /\ cancel_requested) =>
          (t' # t + 1 /\ (results' = results \/ t = data[1].n_hours))]_vars

\* C18: while a run is in its loop the reported fraction lies in [0, 1] and
\* never decreases; it is 1 only in the step that follows the last of the T
\* hours; an hour that reports draws the same 5 N random numbers as one that
\* does not, and adds to the loss matrices exactly the hour's two increments
C18_ProgressReport ==
    [][pc = "loop" =>
          /\ RLe(RZero, bar'.pct) /\ RLe(bar'.pct, RInt(1))
          /\ RLe(bar.pct, bar'.pct)
          /\ bar'.pct = RInt(1) => (t = data[1].n_hours /\ pc' = "idle")
          /\ HourStep =>
                LET d == data[1]
                    y == d.year_map[t + 1] + 1
                    dr == HourDraws(rng, params.paths)
                IN  /\ rng' = RngAt(rng, DrawsPerHour(params.paths))
                    /\ \A i \in DOMAIN imb :
                          /\ imb'[i][y] - imb[i][y] =
                                ImbIncrement(delta_q'[i],
                                    PenaltyTotal(dr.pz[i], d.dates[t + 1].hour))
                          /\ vp'[i][y] - vp[i][y] =
                                VpIncrement(delta_q'[i], spot'[i], d.hpfc[t + 1])]_vars
\* two hours of a long run are done; the first was reported with fraction 0
\* and the second was processed without a report
C18_Witness ==
    /\ pc = "loop" /\ t = 2
    /\ Max(1, data[1].n_hours \div ProgressSteps) > 1
    /\ bar = [pct |-> RZero, shown |-> TRUE]
    /\ rng = RngAt(SeedForRun(rng, params), 2 * DrawsPerHour(params.paths))

\* C19: during a run each of the two diagnostic buffers has min(N, 50) rows
\* of min(T, 8760) entries, so at most 50 x 8760; an hour t below
\* min(T, 8760) writes entry t of every row from the first min(N, 50) paths,
\* any later hour leaves the buffers as they are, and no hour changes their
\* shape
DiagShape(buf) ==
    /\ Len(buf) = Min(params.paths, MaxDiagPaths)
    /\ \A i \in DOMAIN buf : Len(buf[i]) = Min(data[1].n_hours, MaxDiagHours)
DiagWrite(buf, bufNew, src) ==
    IF t < Min(data[1].n_hours, MaxDiagHours)
    THEN /\ DOMAIN bufNew = 1..Min(params.paths, MaxDiagPaths)
         /\ \A i \in DOMAIN bufNew :
               bufNew[i] = [buf[i] EXCEPT ![t + 1] = AsFloat32(src[i])]
    ELSE bufNew = buf
C19_DiagnosticsBounded ==
    /\ [](pc = "loop" => DiagShape(spot_samples) /\ DiagShape(vol_error_samples))
    /\ [][HourStep =>
            /\ DiagWrite(spot_samples, spot_samples', spot')
            /\ DiagWrite(vol_error_samples, vol_error_samples', vs')]_vars
\* a run of more than 50 paths has done all its hours: the buffers hold the
\* first 50 paths only, every hour of them written
C19_Witness ==
    /\ pc = "loop" /\ t = data[1].n_hours
    /\ Len(spot) > MaxDiagPaths
    /\ Len(spot_samples) = MaxDiagPaths
    /\ \A i \in DOMAIN spot_samples : spot_samples[i][t] = AsFloat32(spot[i])
    /\ \E i \in DOMAIN spot_samples : spot_samples[i][1] # spot_samples[i][t]

\* C20 as stated: every stored result of a run with a cost-of-capital rate
\* r >= 0 has a diversification benefit that is a number and is >= 0
C20_DiversificationBenefit ==
    (results # <<>> /\ params.cost_of_capital >= 0) =>
        /\ IsFinite(results[1].total.div_benefit)
        /\ RLe(RZero, results[1].total.div_benefit)

\* C21 as stated: a stored result of a dataset with a single delivery year
\* has a diversification benefit equal to 0 and a portfolio total equal to
\* the result of that year
C21_SingleYear ==
    (results # <<>> /\ Len(data[1].years) = 1) =>
        LET res == results[1]
        IN  /\ res.total.div_benefit = RZero
            /\ Len(res.yearly) = 1
            /\ res.total.vol = res.yearly[1].vol
            /\ res.total.struktur = res.yearly[1].struktur
            /\ res.total.prognose = res.yearly[1].prognose
            /\ res.total.vp_prem = res.yearly[1].vp_prem
            /\ res.total.gesamt = res.yearly[1].gesamt
            /\ res.total.im = res.yearly[1].im
            /\ res.total.vm = res.yearly[1].vm

\* the forecast-risk premiums (EL + UL * r) / V of an imbalance matrix: one
\* per year that is kept, then the one of the portfolio
ForecastPremiums(d, p, imbM) ==
    LET kept == SelectSeq([y \in YearsOf(d) |-> y], LAMBDA y : vol_y(d)[y] >= 1)
    IN  [k \in 1..Len(kept) |->
            RiskPremium(compute_risk_metrics(Col(imbM, kept[k]), p.confidence),
                        p.cost_of_capital, vol_y(d)[kept[k]])]
        \o <<RiskPremium(compute_risk_metrics(RowSums(imbM), p.confidence),
                         p.cost_of_capital, SeqSum(vol_y(d)))>>
\* the run that has just done its hours has the dataset, the seed and the
\* parameters of the first run of the session, but for a sigma_V at least as
\* large
SameButVolError ==
    /\ pc = "loop" /\ t = data[1].n_hours
    /\ first_run # <<>>
    /\ first_run[1].data = data[1]
    /\ first_run[1].params =
          [params EXCEPT !.vol_error = first_run[1].params.vol_error]
    /\ first_run[1].params.vol_error <= params.vol_error

\* C22 as stated: with the seed, the dataset and every other parameter the
\* same, the run with the larger sigma_V has, for every year and for the
\* portfolio, a forecast-risk premium that is not smaller
C22_MonotoneInVolError ==
    SameButVolError =>
        LET lo == ForecastPremiums(data[1], first_run[1].params, first_run[1].imb_y)
            hi == ForecastPremiums(data[1], params, imb)
        IN  \A k \in DOMAIN lo :
                IsFinite(lo[k]) /\ IsFinite(hi[k]) /\ RLe(lo[k], hi[k])

\* C23 as stated: a RiskMetrics in which the spectral or the entropic
\* measure was replaced by the CVaR fallback can be told from the RiskMetrics
\* of a direct computation: no call that computes its measures directly
\* returns the same record
C23_FallbackDistinguishable ==
    (rm_called /\ rm_fallback # {}) =>
        \A a \in Alphas : rm_out # compute_risk_metrics(rm_losses, a)

\* C24: an hour of the loop leaves, in both loss matrices, every entry
\* outside the column of the hour's year as it was, and whatever it changes
\* in either matrix lies in that one column
ChangedColumns(M, MNew) ==
    {y \in 1..Len(data[1].years) : \E i \in DOMAIN M : MNew[i][y] # M[i][y]}
C24_OnlyOwnYearColumn ==
    [][HourStep =>
          LET own == data[1].year_map[t + 1] + 1
          IN  /\ DOMAIN imb' = DOMAIN imb /\ DOMAIN vp' = DOMAIN vp
              /\ \A i \in DOMAIN imb :
                    DOMAIN imb'[i] = DOMAIN imb[i] /\ DOMAIN vp'[i] = DOMAIN vp[i]
              /\ ChangedColumns(imb, imb') \subseteq {own}
              /\ ChangedColumns(vp, vp') \subseteq {own}]_vars
\* the first hour of the second year is done: it has added to the second
\* column of both matrices, and the first column holds what the first year
\* left there
C24_Witness ==
    /\ pc = "loop" /\ t >= 2
    /\ data[1].year_map[t] = 1 /\ data[1].year_map[t - 1] = 0
    /\ \E i \in DOMAIN imb :
          imb[i][2] > 0 /\ vp[i][2] # 0 /\ imb[i][1] > 0 /\ vp[i][1] # 0

\* C25: once an hour of the loop is done every path's spot price lies in
\* [-200, 3000] and, with GARCH enabled, every path's conditional variance
\* lies in [0.5, 8000]
C25_InsideBands ==
    (pc = "loop" /\ t >= 1) =>
        /\ \A i \in DOMAIN spot : SpotMin <= spot[i] /\ spot[i] <= SpotMax
        /\ params.garch_enabled =>
              \A i \in DOMAIN g_var : GVarMin <= g_var[i] /\ g_var[i] <= GVarMax

\* with GARCH enabled a path's variance has been held at 8000 and a path's
\* spot price at one end of its band
C25_Witness ==
    /\ pc = "loop" /\ t >= 2
    /\ params.garch_enabled
    /\ \E i \in DOMAIN g_var : g_var[i] = GVarMax
    /\ \E i \in DOMAIN spot : spot[i] \in {SpotMin, SpotMax}

\* (EL + UL * r) / V recomputed from the two measures of a RiskMetrics
StatedPremium(m, cc, V) ==
    FDiv(RAdd(m.EL, RMul(m.UL, RNorm(cc, 100))), RInt(V))
PremiumIdentities(res, p) ==
    /\ \A k \in DOMAIN res.yearly :
          LET yr == res.yearly[k]
          IN  /\ yr.gesamt = FAdd(FAdd(yr.struktur, yr.prognose), yr.vp_prem)
              /\ yr.im = compute_risk_metrics(Col(res.raw.imb_y, yr.yi + 1),
                                              p.confidence)
              /\ yr.vm = compute_risk_metrics(Col(res.raw.vp_y, yr.yi + 1),
                                              p.confidence)
              /\ yr.prognose = StatedPremium(yr.im, p.cost_of_capital, yr.vol)
              /\ yr.vp_prem = StatedPremium(yr.vm, p.cost_of_capital, yr.vol)
    /\ LET tot == res.total
       IN  /\ tot.gesamt = FAdd(FAdd(tot.struktur, tot.prognose), tot.vp_prem)
           /\ tot.im = compute_risk_metrics(res.raw.imb_tot, p.confidence)
           /\ tot.vm = compute_risk_metrics(res.raw.vp_tot, p.confidence)
           /\ tot.prognose = StatedPremium(tot.im, p.cost_of_capital, tot.vol)
           /\ tot.vp_prem = StatedPremium(tot.vm, p.cost_of_capital, tot.vol)
\* C26: in the result a run stores, every year's total premium is the sum of
\* its structural, forecast-risk and volume-price premium, the portfolio
\* total is the same sum of the portfolio's three, and every forecast-risk
\* and volume-price premium is (EL + UL * cost of capital) / volume of the
\* risk measures of its own loss sample
C26_PremiumIdentities ==
    [][(results' # results /\ results' # <<>>) =>
          PremiumIdentities(results'[1], params)]_vars
\* a stored result of two years in which the unexpected loss is positive in
\* a year and in the portfolio and all three premiums of the first year are
\* non-zero numbers
C26_Witness ==
    /\ results # <<>>
    /\ Len(results[1].yearly) = 2
    /\ results[1].yearly[1].im.UL[1] > 0
    /\ results[1].total.vm.UL[1] > 0
    /\ \A f \in {"struktur", "prognose", "vp_prem"} :
          IsFinite(results[1].yearly[1][f]) /\ results[1].yearly[1][f][1] # 0

\* what a stored result shows of the dataset it was computed on
ResultsFit(res, d) ==
    /\ res.total.vol = SeqSum(vol_y(d))
    /\ \A i \in DOMAIN res.raw.imb_y : Len(res.raw.imb_y[i]) = Len(d.years)
    /\ res.diagnostics.n_diag_hours = Min(d.n_hours, MaxDiagHours)
\* C27: whenever the session holds results it holds a dataset and the results
\* were computed by a run on that dataset: results are only ever stored by a
\* run over the dataset then loaded, and every step that replaces the dataset
\* clears the results in the same step
C27_ResultsBelongToData ==
    [][/\ results' # <<>> =>
             (data' # <<>> /\ ResultsFit(results'[1], data'[1]))
       /\ (results' # results /\ results' # <<>>) =>
             /\ data # <<>> /\ data' = data
             /\ results' = <<PostProcess(data[1], params, imb, vp,
                                         spot_samples, vol_error_samples)>>
       /\ data' # data => results' = <<>>]_vars
\* results of a second run are stored for a dataset other than that of the
\* first run: the dataset was replaced after results existed
C27_Witness ==
    /\ results # <<>>
    /\ simulation_count = 2
    /\ first_run # <<>>
    /\ first_run[1].data # data[1]

\* C28: each click on the start button causes exactly one run: whenever a
\* script run has ended the flag is FALSE again, a run begins only from a
\* cleared flag (by a click), the run that stores results replaces them by
\* its own result and adds exactly 1 to simulation_count, and
\* simulation_count changes in no other step
C28_OneRunPerClick ==
    [][/\ pc' = "idle" => run_flag' = FALSE
       /\ (pc = "idle" /\ pc' = "loop") => (run_flag = FALSE /\ run_flag' = TRUE)
       /\ (pc = "loop" /\ pc' = "idle" /\ results' # results) =>
             /\ results' = <<PostProcess(data[1], params, imb, vp,
                                         spot_samples, vol_error_samples)>>
             /\ simulation_count' = simulation_count + 1
       /\ simulation_count' # simulation_count =>
             /\ simulation_count' = simulation_count + 1
             /\ pc = "loop" /\ pc' = "idle" /\ results' # <<>>]_vars

\* the call was made at the unchanged value of its parameter
AtUnchanged ==
    /\ ap_out # <<>>
    /\ ap_args[1].param_name \in ApproxNames
    /\ ap_args[1].new_value = ParamOrig(ap_args[1].params, ap_args[1].param_name)
\* C29 as stated: for every parameter name of _analytical_premium_approx the
\* call at the unchanged value returns exactly the base total premium gesamt
C29_Original ==
    AtUnchanged => ap_out[1] = ap_args[1].results.total.gesamt
\* the names whose branch adds the three premiums in the order of line 4093
SameOrderNames ==
    {"base_price", "vol_error", "correlation", "sigma_price", "kappa", "phi"}
\* C29: at the unchanged value the branches of base_price, vol_error,
\* correlation, sigma_price, kappa and phi return exactly gesamt; those of
\* jump_prob, jump_size and cost_of_capital return struktur + (prognose +
\* vp_prem) and that of confidence returns (struktur + risk/2) + risk/2 with
\* risk = prognose + vp_prem, each sum rounded as floating point
C29_ZeroShift ==
    AtUnchanged =>
        LET b == ap_args[1].results.total
            nm == ap_args[1].param_name
            risk == FlAdd(b.prognose, b.vp_prem)
            half == FlMul(risk, RNorm(1, 2))
        IN  /\ nm \in SameOrderNames => ap_out[1] = b.gesamt
            /\ nm \in {"jump_prob", "jump_size", "cost_of_capital"} =>
                  ap_out[1] = FlAdd(b.struktur, risk)
            /\ nm = "confidence" =>
                  ap_out[1] = FlAdd(FlAdd(b.struktur, half), half)
\* the kappa branch was evaluated at the unchanged kappa on non-zero premiums
\* and returned gesamt, and gesamt is not the exact sum of the three
C29_Witness ==
    /\ AtUnchanged
    /\ ap_args[1].param_name = "kappa"
    /\ ap_args[1].results.total.prognose # RZero
    /\ ap_out[1] = ap_args[1].results.total.gesamt
    /\ ap_out[1] # FAdd(FAdd(ap_args[1].results.total.struktur,
                             ap_args[1].results.total.prognose),
                        ap_args[1].results.total.vp_prem)

\* the measures are those of a non-empty sample
MeanCalled == rm_called /\ rm_losses # <<>>
\* the mean of a sequence of losses without rounding
ExactMean(s) == RNorm(SeqSum(s), Len(s))
\* neither the mean of the sample nor the mean of its tail was rounded
MeansExact ==
    /\ rm_out.EL = ExactMean(rm_losses)
    /\ rm_out.CVaR =
          ExactMean(TailSlice(rm_out.sorted, VarIndex(rm_alpha, Len(rm_losses))))
\* C30 as stated: for every non-empty sample and every confidence level in
\* [0, 1] the CVaR of compute_risk_metrics is at least the expected loss, so
\* that UL = CVaR - EL
C30_Original ==
    MeanCalled =>
        /\ RLe(rm_out.EL, rm_out.CVaR)
        /\ rm_out.UL = FlSub(rm_out.CVaR, rm_out.EL)
\* C30: for every non-empty sample and every confidence level in [0, 1],
\* UL = max(0, CVaR - EL) >= 0; CVaR >= EL and UL = CVaR - EL hold whenever
\* the two means are computed without rounding, and whenever CVaR < EL the
\* guard binds and UL = 0
C30_TailMeanAboveMean ==
    MeanCalled =>
        /\ RLe(RZero, rm_out.UL)
        /\ rm_out.UL = RMax(RZero, FlSub(rm_out.CVaR, rm_out.EL))
        /\ MeansExact =>
              /\ RLe(rm_out.EL, rm_out.CVaR)
              /\ rm_out.UL = FlSub(rm_out.CVaR, rm_out.EL)
        /\ RLt(rm_out.CVaR, rm_out.EL) => rm_out.UL = RZero
\* a sample of different losses whose means are exact, with a tail that is
\* a proper part of the sample and a positive unexpected loss
C30_Witness ==
    /\ MeanCalled
    /\ MeansExact
    /\ VarIndex(rm_alpha, Len(rm_losses)) > 0
    /\ Len(rm_losses) >= 3
    /\ RLt(RZero, rm_out.UL)
    /\ rm_out.UL = RSub(rm_out.CVaR, rm_out.EL)

====
